---------------------------- MODULE Spec2Model ----------------------------
(***************************************************************************)
(* Model of esrb-slate-gen-webui: the rate limiting proxy (src/proxy.ts)   *)
(* in front of the generation endpoint.                                    *)
(*                                                                         *)
(* Text values the program inspects character by character (the request   *)
(* path, the x-forwarded-for header, the RATE_LIMIT_MAX_REQUESTS override) *)
(* are sequences of one-character strings.  Text the program only emits    *)
(* (header values, bodies) is a TLA+ string.  An optional value is a       *)
(* sequence of length 0 (undefined / null) or 1.                           *)
(***************************************************************************)
EXTENDS Integers, Sequences, FiniteSets, Bags, TLC

VARIABLES
    env,                      \* process.env.RATE_LIMIT_MAX_REQUESTS (optional)
    RATE_LIMIT_MAX_REQUESTS,  \* the module constant computed from env at load
    rateLimitCache,           \* the LRUCache, least recently used entry first
    now,                      \* the clock (ms) read by Date.now / the cache
    pending,                  \* requests that arrived and await their turn
    last,                     \* the latest proxy call (optional): its request,
                              \* what it found and did, and its response
    hits,                     \* history: matched calls per tracked key since
                              \* its counter was created
    blocked,                  \* history: the tracked keys that were rejected
                              \* since their counter was created
    handlers,                 \* the calls of the route handler POST in progress
    Page,                     \* the state of the Page component in a browser
    recency,                  \* history: the tracked keys, from the one whose
                              \* latest matched request is the oldest
    evicted                   \* history: the keys dropped for capacity and
                              \* not seen since

vars ==
    <<env, RATE_LIMIT_MAX_REQUESTS, rateLimitCache, now, pending, last, hits,
      blocked, handlers, Page, recency, evicted>>

None == <<>>
Some(v) == <<v>>

---------------------------------------------------------------------------
(* Bounds of the model.                                                    *)

\* The clock advances at most this many times (by TimeSteps) in a behaviour.
MaxTicks == 2
\* A key's counter is driven no higher than this.
MaxCount == 4
\* At most this many requests wait for their turn at the same time.
MaxPending == 2
\* At most this many calls of the route handler are in progress together.
MaxHandlers == 1
\* Calls of handleGenerate that a behaviour of the page starts.
MaxClicks == 2

---------------------------------------------------------------------------
(* JavaScript numbers.  The values the limiter computes with are NaN and   *)
(* decimal fractions n / d with d a power of ten, kept in lowest decimal   *)
(* form (no trailing zero in the fraction).  The inputs of the model keep  *)
(* to fractions that IEEE doubles hold exactly (halves).                   *)

NaN == [nan |-> TRUE, n |-> 0, d |-> 1]

RECURSIVE Normalize(_, _)
Normalize(n, d) ==
    IF d > 1 /\ n % 10 = 0 THEN Normalize(n \div 10, d \div 10)
    ELSE [nan |-> FALSE, n |-> n, d |-> d]

Int2Num(i) == [nan |-> FALSE, n |-> i, d |-> 1]

\* ToBoolean of a number: NaN, +0 and -0 are falsy.
Truthy(x) == ~x.nan /\ x.n # 0

\* x - i for an integer i.
NumMinusInt(x, i) == Normalize(x.n - i * x.d, x.d)
\* i - x and comparisons of an integer with a number.
IntGreater(i, x) == ~x.nan /\ i * x.d > x.n

RECURSIVE Pow10(_)
Pow10(k) == IF k = 0 THEN 1 ELSE 10 * Pow10(k - 1)

RECURSIVE Log10(_)
Log10(d) == IF d <= 1 THEN 0 ELSE 1 + Log10(d \div 10)

\* The decimal digits of f, left padded with zeros to width w.
RECURSIVE PadDigits(_, _)
PadDigits(f, w) ==
    IF w = 0 THEN "" ELSE PadDigits(f \div 10, w - 1) \o ToString(f % 10)

\* Number.prototype.toString for the values above.
NumberToString(x) ==
    IF x.nan THEN "NaN"
    ELSE IF x.d = 1 THEN ToString(x.n)
    ELSE LET a == IF x.n < 0 THEN -x.n ELSE x.n
         IN  (IF x.n < 0 THEN "-" ELSE "")
                 \o ToString(a \div x.d) \o "." \o PadDigits(a % x.d, Log10(x.d))

\* Math.max(0, x)
MathMax0(x) == IF x.nan THEN NaN ELSE IF x.n > 0 THEN x ELSE Int2Num(0)

\* Math.ceil(a / b) for positive integers.
MathCeilDiv(a, b) == (a + b - 1) \div b

---------------------------------------------------------------------------
(* Number(string): StringToNumber for optional whitespace, an optional     *)
(* sign and a decimal literal "ddd", "ddd.", "ddd.ddd" or ".ddd".  Any     *)
(* other text is NaN (the inputs of the model hold no exponent, hex or     *)
(* Infinity literal).                                                      *)

DigitChars == <<"0", "1", "2", "3", "4", "5", "6", "7", "8", "9">>
IsDigit(c) == \E i \in 1..10 : DigitChars[i] = c
DigitVal(c) == (CHOOSE i \in 1..10 : DigitChars[i] = c) - 1
AllDigits(s) == \A i \in 1..Len(s) : IsDigit(s[i])

RECURSIVE DigitsVal(_)
DigitsVal(s) ==
    IF s = <<>> THEN 0
    ELSE 10 * DigitsVal(SubSeq(s, 1, Len(s) - 1)) + DigitVal(s[Len(s)])

RECURSIVE TrimLeft(_)
TrimLeft(s) == IF s # <<>> /\ Head(s) = " " THEN TrimLeft(Tail(s)) ELSE s

RECURSIVE TrimRight(_)
TrimRight(s) ==
    IF s # <<>> /\ s[Len(s)] = " " THEN TrimRight(SubSeq(s, 1, Len(s) - 1)) ELSE s

Trim(s) == TrimRight(TrimLeft(s))

StrUnsignedDecimal(u) ==
    LET dots == {i \in 1..Len(u) : u[i] = "."}
    IN  IF dots = {}
        THEN IF u # <<>> /\ AllDigits(u) THEN Int2Num(DigitsVal(u)) ELSE NaN
        ELSE IF Cardinality(dots) > 1 THEN NaN
        ELSE LET p  == CHOOSE i \in dots : TRUE
                 ip == SubSeq(u, 1, p - 1)
                 fp == SubSeq(u, p + 1, Len(u))
             IN  IF AllDigits(ip) /\ AllDigits(fp) /\ (ip # <<>> \/ fp # <<>>)
                 THEN Normalize(DigitsVal(ip) * Pow10(Len(fp)) + DigitsVal(fp),
                                Pow10(Len(fp)))
                 ELSE NaN

Negate(x) == IF x.nan THEN x ELSE [x EXCEPT !.n = -x.n]

\* Number(v) of an optional string: Number(undefined) is NaN, Number("") is 0.
Number(v) ==
    IF v = None THEN NaN
    ELSE LET t == Trim(v[1])
         IN  IF t = <<>> THEN Int2Num(0)
             ELSE IF Head(t) = "-" THEN Negate(StrUnsignedDecimal(Tail(t)))
             ELSE IF Head(t) = "+" THEN StrUnsignedDecimal(Tail(t))
             ELSE StrUnsignedDecimal(t)

---------------------------------------------------------------------------
(* Rate limit configuration.                                               *)

RATE_LIMIT_WINDOW == 15 * 60 * 1000

DefaultMaxRequests == 30

\* Number(process.env.RATE_LIMIT_MAX_REQUESTS) || 30
MaxRequestsFromEnv(e) ==
    IF Truthy(Number(e)) THEN Number(e) ELSE Int2Num(DefaultMaxRequests)

\* new LRUCache({ max: 500, ttl: RATE_LIMIT_WINDOW, ttlResolution: 1000 })
CacheMax == 500
CacheTtl == RATE_LIMIT_WINDOW

---------------------------------------------------------------------------
(* The LRUCache.  An entry is [key, value, ttlStart]; the sequence runs    *)
(* from the least to the most recently used entry.                         *)

CacheKeys(c) == {c[i].key : i \in 1..Len(c)}
CacheHas(c, k) == \E i \in 1..Len(c) : c[i].key = k
CacheIndex(c, k) == CHOOSE i \in 1..Len(c) : c[i].key = k
CacheEntry(c, k) == c[CacheIndex(c, k)]
CacheWithout(c, k) == SelectSeq(c, LAMBDA e : e.key # k)

\* An entry is stale once more than ttl ms passed since it was last set.
IsStale(e, t) == t - e.ttlStart > CacheTtl

\* A live entry: present and not stale, the one get() returns.
CacheLive(c, k, t) == CacheHas(c, k) /\ ~IsStale(CacheEntry(c, k), t)

\* cache.get(k): a stale entry is deleted and undefined returned; a live
\* entry becomes the most recently used one (its ttl is not refreshed).
CacheGet(c, k, t) ==
    IF ~CacheHas(c, k) THEN [cache |-> c, value |-> None]
    ELSE IF IsStale(CacheEntry(c, k), t)
         THEN [cache |-> CacheWithout(c, k), value |-> None]
         ELSE [cache |-> Append(CacheWithout(c, k), CacheEntry(c, k)),
               value |-> Some(CacheEntry(c, k).value)]

\* Variant: set() of an existing key keeps the time its ttl counts from.
CacheSetKeepingTtl(c, k, v, t) ==
    LET e == [key |-> k, value |-> v,
              ttlStart |-> IF CacheHas(c, k) THEN CacheEntry(c, k).ttlStart
                           ELSE t]
    IN  IF CacheHas(c, k) THEN Append(CacheWithout(c, k), e)
        ELSE IF Len(c) >= CacheMax THEN Append(Tail(c), e)
        ELSE Append(c, e)

\* Variant: the cache has no capacity bound.
CacheSetUnbounded(c, k, v, t) ==
    Append(CacheWithout(c, k), [key |-> k, value |-> v, ttlStart |-> t])

\* Variant: at capacity the second least recently used entry is evicted.
CacheSetEvictingSecond(c, k, v, t) ==
    LET e == [key |-> k, value |-> v, ttlStart |-> t]
    IN  IF CacheHas(c, k) THEN Append(CacheWithout(c, k), e)
        ELSE IF Len(c) >= CacheMax
             THEN Append(<<c[1]>> \o SubSeq(c, 3, Len(c)), e)
        ELSE Append(c, e)

\* Variant: at capacity the most recently used entry is evicted.
CacheSetEvictingNewest(c, k, v, t) ==
    LET e == [key |-> k, value |-> v, ttlStart |-> t]
    IN  IF CacheHas(c, k) THEN Append(CacheWithout(c, k), e)
        ELSE IF Len(c) >= CacheMax THEN Append(SubSeq(c, 1, Len(c) - 1), e)
        ELSE Append(c, e)

\* cache.set(k, v): an existing entry is replaced; a new key at capacity
\* evicts the least recently used entry.  The ttl counts from this call.
CacheSet(c, k, v, t) ==
    LET e == [key |-> k, value |-> v, ttlStart |-> t]
    IN  IF CacheHas(c, k) THEN Append(CacheWithout(c, k), e)
        ELSE IF Len(c) >= CacheMax THEN Append(Tail(c), e)
        ELSE Append(c, e)


---------------------------------------------------------------------------
(* Requests and responses.  A request is [pathname, xff]: the path of      *)
(* request.nextUrl and the optional x-forwarded-for header.  A response is *)
(* [status, headers, body]; headers maps the names that are set to their   *)
(* values.                                                                 *)

\* '/api/generate'
ProtectedPrefix ==
    <<"/", "a", "p", "i", "/", "g", "e", "n", "e", "r", "a", "t", "e">>

\* 'unknown'
UnknownIp == <<"u", "n", "k", "n", "o", "w", "n">>

\* String.prototype.startsWith
StartsWith(s, p) == Len(s) >= Len(p) /\ SubSeq(s, 1, Len(p)) = p

\* s.split(sep)[0]: the text before the first separator, all of s without one.
SplitFirst(s, sep) ==
    LET at == {i \in 1..Len(s) : s[i] = sep}
    IN  IF at = {} THEN s
        ELSE SubSeq(s, 1, (CHOOSE i \in at : \A j \in at : i <= j) - 1)

EmptyHeaders == [h \in {} |-> ""]
SetHeader(hs, name, value) == (name :> value) @@ hs
HasHeader(hs, name) == name \in DOMAIN hs

\* NextResponse.next(): the continuation signal, status 200.
NextResponseNext ==
    [status |-> 200,
     headers |-> SetHeader(EmptyHeaders, "x-middleware-next", "1"),
     body |-> None]

\* JSON.stringify({ error: message })
JsonError(message) == "{\"error\":\"" \o message \o "\"}"

\* Variant: the limiter is applied to every path.
MatchedEverywhere(request) == TRUE

\* request.nextUrl.pathname.startsWith('/api/generate')
Matched(request) == StartsWith(request.pathname, ProtectedPrefix)

\* Variant: the whole header value is the key.
ClientIpWholeHeader(request) ==
    IF request.xff = None THEN UnknownIp ELSE request.xff[1]

\* request.headers.get('x-forwarded-for')?.split(',')[0] ?? 'unknown'
ClientIp(request) ==
    IF request.xff = None THEN UnknownIp ELSE SplitFirst(request.xff[1], ",")

\* Variant: the cached counter is ignored, every request starts a new one.
TokenAlwaysNew(got, t) == [count |-> 0, start |-> t]

\* Variant: a new counter starts at one before the request is counted.
TokenCountsFromOne(got, t) ==
    IF got.value # None THEN got.value[1] ELSE [count |-> 1, start |-> t]

\* rateLimitCache.get(ip) || { count: 0, start: Date.now() }
Token(got, t) ==
    IF got.value # None THEN got.value[1] ELSE [count |-> 0, start |-> t]

\* const newCount = token.count + 1
NewCount(token) == token.count + 1

\* Variant: a request over the ceiling is not counted.
StoredValueUnlessOver(token) ==
    [count |-> IF IntGreater(NewCount(token), RATE_LIMIT_MAX_REQUESTS)
               THEN token.count ELSE NewCount(token),
     start |-> token.start]

\* The value stored back: { count: newCount, start: token.start }
StoredValue(token) == [count |-> NewCount(token), start |-> token.start]

\* Variant: the remaining quota is computed from the count before this
\* request.
RemainingBeforeThis(limit, newCount) ==
    MathMax0(NumMinusInt(limit, newCount - 1))

\* Math.max(0, RATE_LIMIT_MAX_REQUESTS - newCount)
Remaining(limit, newCount) == MathMax0(NumMinusInt(limit, newCount))

\* Variant: the request that reaches the ceiling is already rejected.
OverLimitInclusive(limit, newCount) == IntGreater(newCount + 1, limit)

\* newCount > RATE_LIMIT_MAX_REQUESTS
OverLimit(limit, newCount) == IntGreater(newCount, limit)

\* Variant: Retry-After is given in milliseconds.
RetryAfterMillis == ToString(RATE_LIMIT_WINDOW)

\* Math.ceil(RATE_LIMIT_WINDOW / 1000).toString()
RetryAfter == ToString(MathCeilDiv(RATE_LIMIT_WINDOW, 1000))

\* The response of an allowed matched request.
AllowResponse(limit, newCount) ==
    [NextResponseNext EXCEPT
        !.headers =
            SetHeader(
                SetHeader(@, "X-RateLimit-Limit", NumberToString(limit)),
                "X-RateLimit-Remaining",
                NumberToString(Remaining(limit, newCount)))]

\* Variant: the rejection is built on the continuation signal, as
\* NextResponse.next({ status: 429 }) would be.
RejectResponseContinuing(limit) ==
    [NextResponseNext EXCEPT
        !.status = 429,
        !.headers =
            SetHeader(
                SetHeader(
                    SetHeader(@, "X-RateLimit-Limit", NumberToString(limit)),
                    "X-RateLimit-Remaining", "0"),
                "Retry-After", RetryAfter)]

\* new NextResponse(JSON.stringify({ error: 'Too Many Requests' }), ...)
RejectResponse(limit) ==
    [status |-> 429,
     headers |->
        ("Content-Type" :> "application/json")
            @@ ("X-RateLimit-Limit" :> NumberToString(limit))
            @@ ("X-RateLimit-Remaining" :> "0")
            @@ ("Retry-After" :> RetryAfter),
     body |-> Some(JsonError("Too Many Requests"))]

\* The cache after the get and the set of a matched request.
CacheAfter(c, t, request) ==
    LET ip  == ClientIp(request)
        got == CacheGet(c, ip, t)
    IN  CacheSet(got.cache, ip, StoredValue(Token(got, t)), t)

\* Variant: over the ceiling an error is thrown, which the framework answers
\* with status 500.
MatchedResponseThrowing(c, t, limit, request) ==
    LET newCount == NewCount(Token(CacheGet(c, ClientIp(request), t), t))
    IN  IF OverLimit(limit, newCount)
        THEN [status |-> 500, headers |-> EmptyHeaders, body |-> None]
        ELSE AllowResponse(limit, newCount)

\* What a matched request is answered with.
MatchedResponse(c, t, limit, request) ==
    LET newCount == NewCount(Token(CacheGet(c, ClientIp(request), t), t))
    IN  IF OverLimit(limit, newCount) THEN RejectResponse(limit)
        ELSE AllowResponse(limit, newCount)

\* proxy(request), run against cache c at time t: the cache it leaves and
\* the response it returns.
proxy(c, t, limit, request) ==
    IF Matched(request)
    THEN [cache |-> CacheAfter(c, t, request),
          response |-> MatchedResponse(c, t, limit, request)]
    ELSE [cache |-> c, response |-> NextResponseNext]

---------------------------------------------------------------------------
(* Inputs of the model.                                                    *)

HalfWindow == RATE_LIMIT_WINDOW \div 2
TimeSteps == {HalfWindow, HalfWindow + 1}

\* RATE_LIMIT_MAX_REQUESTS: unset, "1" and "2".
EnvValues == {None, Some(<<"1">>), Some(<<"2">>)}

\* '/api/generate' and '/other-path'
OtherPath == <<"/", "o", "t", "h", "e", "r", "-", "p", "a", "t", "h">>
Paths == {ProtectedPrefix, OtherPath}

\* x-forwarded-for: absent, "a"
XffValues == {None, Some(<<"a">>)}

Requests == [pathname : Paths, xff : XffValues]

---------------------------------------------------------------------------
(* The state machine.                                                      *)

\* The Page component after its first render and effect: the useState
\* initial values, no call of handleGenerate yet.  calls are the calls of
\* handleGenerate in progress, started counts them; imageOf, errorOf and
\* finished are history: the call that set imageUrl, the call that set
\* error, and the call that ended last with what it received.
MountedPage ==
    [mode          |-> "scrape",
     gameTitle     |-> <<>>,
     url           |-> <<>>,
     loading       |-> FALSE,
     imageUrl      |-> None,
     error         |-> None,
     foundGameInfo |-> None,
     calls         |-> <<>>,
     started       |-> 0,
     imageOf       |-> 0,
     errorOf       |-> 0,
     finished      |-> None]

NoHits == [k \in {} |-> 0]

InitWith(envs) ==
    /\ env \in envs
    /\ RATE_LIMIT_MAX_REQUESTS = MaxRequestsFromEnv(env)
    /\ rateLimitCache = <<>>
    /\ now = 0
    /\ pending = EmptyBag
    /\ last = None
    /\ hits = NoHits
    /\ blocked = {}
    /\ handlers = <<>>
    /\ Page = MountedPage
    /\ recency = <<>>
    /\ evicted = {}

Init == InitWith(EnvValues)

\* The count a matched request of key k would be stored with.
NextCountOf(k) ==
    NewCount(Token(CacheGet(rateLimitCache, k, now), now))

\* The result of proxy(r) in the current state.
Result(r) == proxy(rateLimitCache, now, RATE_LIMIT_MAX_REQUESTS, r)

\* The key of r has no live counter: proxy starts a new one for it.
Fresh(r) == Matched(r) /\ ~CacheLive(rateLimitCache, ClientIp(r), now)

\* The keys other than k whose entry the cache c2 no longer holds as c did.
Disturbed(c, c2, k) ==
    LET before == {c[i] : i \in 1..Len(c)}
        after  == {c2[i] : i \in 1..Len(c2)}
    IN  {e.key : e \in before \ after} \ {k}

\* The history after a matched call for key k that left cache c2: the
\* matched calls of each tracked key since its counter was created.
HitsAfter(k, fresh, c2) ==
    [x \in CacheKeys(c2) \cup {k} |->
        IF x = k THEN (IF fresh THEN 1 ELSE hits[k] + 1) ELSE hits[x]]

\* The keys rejected since their counter was created, after a matched call
\* for key k answered with status.
BlockedAfter(k, fresh, status, c2) ==
    ((blocked \ (IF fresh THEN {k} ELSE {}))
        \cup (IF status = 429 THEN {k} ELSE {}))
            \cap (CacheKeys(c2) \cup {k})

\* The tracked keys in the order of their latest matched request, after a
\* matched call for key k by which the store lost the keys gone.
RecencyAfter(k, gone) ==
    Append(SelectSeq(recency, LAMBDA x : x # k /\ x \notin gone), k)

\* The matched requests of key k that wait for their turn.
Waiting(k) ==
    BagCardinality(
        [r \in {x \in BagToSet(pending) : Matched(x) /\ ClientIp(x) = k}
            |-> pending[r]])

\* One call of proxy(request).  The function has no await: it runs to
\* completion within its turn, so the call is one step.
Call(r) ==
    LET res   == Result(r)
        k     == ClientIp(r)
        fresh == Fresh(r)
    IN  /\ Matched(r) => NextCountOf(k) <= MaxCount
        /\ rateLimitCache' = res.cache
        /\ last' = Some([request  |-> r,
                         fresh    |-> fresh,
                         blocked  |-> Matched(r) /\ k \in blocked,
                         changed  |-> res.cache # rateLimitCache,
                         dropped  |-> Disturbed(rateLimitCache, res.cache, k),
                         waiting  |-> Waiting(k) - (IF BagIn(r, pending)
                                                    THEN 1 ELSE 0),
                         response |-> res.response])
        /\ hits' = IF Matched(r) THEN HitsAfter(k, fresh, res.cache) ELSE hits
        /\ blocked' = IF Matched(r)
                      THEN BlockedAfter(k, fresh, res.response.status, res.cache)
                      ELSE blocked
        /\ recency' = IF Matched(r)
                      THEN RecencyAfter(
                               k, Disturbed(rateLimitCache, res.cache, k))
                      ELSE recency
        /\ evicted' = IF Matched(r)
                      THEN (evicted \cup Disturbed(rateLimitCache, res.cache, k))
                               \ {k}
                      ELSE evicted
        /\ UNCHANGED <<env, RATE_LIMIT_MAX_REQUESTS, now>>

\* A request is received and proxy is called for it at once.
Proxy(r) ==
    /\ pending = EmptyBag
    /\ Call(r)
    /\ UNCHANGED <<pending, handlers, Page>>

\* A request reaches the server and waits for its turn on the event loop.
Arrive(r) ==
    /\ BagCardinality(pending) < MaxPending
    /\ pending' = pending (+) SetToBag({r})
    /\ UNCHANGED <<env, RATE_LIMIT_MAX_REQUESTS, rateLimitCache, now, last, hits,
                   blocked, handlers, Page, recency, evicted>>

\* A waiting request gets its turn: proxy is called for it.
Turn(r) ==
    /\ BagIn(r, pending)
    /\ Call(r)
    /\ pending' = pending (-) SetToBag({r})
    /\ UNCHANGED <<handlers, Page>>

\* Time passes.
Tick(d) ==
    /\ now + d <= MaxTicks * (HalfWindow + 1)
    /\ now' = now + d
    /\ UNCHANGED <<env, RATE_LIMIT_MAX_REQUESTS, rateLimitCache, pending, last,
                   hits, blocked, handlers, Page, recency, evicted>>

Next ==
    \/ \E r \in Requests : Proxy(r)
    \/ \E d \in TimeSteps : Tick(d)

Spec == Init /\ [][Next]_vars

\* Requests arrive while others wait: the calls of proxy happen one at a time
\* in any order of the waiting requests.
NextConcurrent ==
    \/ \E r \in Requests : Arrive(r)
    \/ \E r \in Requests : Turn(r)

SpecConcurrent == Init /\ [][NextConcurrent]_vars

\* RATE_LIMIT_MAX_REQUESTS: unset, "2", "-1", "1.5", "0", "", "abc", " 3 ".
ConfigEnvValues ==
    {None, Some(<<"2">>), Some(<<"-", "1">>), Some(<<"1", ".", "5">>),
     Some(<<"0">>), Some(<<>>), Some(<<"a", "b", "c">>),
     Some(<<" ", "3", " ">>)}

\* The limiter under each of the overrides above.
InitConfig == InitWith(ConfigEnvValues)

NextConfig == \E r \in Requests : Proxy(r)

SpecConfig == InitConfig /\ [][NextConfig]_vars

\* The store near its capacity: CacheMax - 1 clients "1", "2", ... have each
\* sent one matched request at time 0, in this order.
RECURSIVE DigitsOf(_)
DigitsOf(i) ==
    IF i < 10 THEN <<DigitChars[i + 1]>>
    ELSE Append(DigitsOf(i \div 10), DigitChars[(i % 10) + 1])

EarlierRequest(i) == [pathname |-> ProtectedPrefix, xff |-> Some(DigitsOf(i))]

\* The cache after the matched requests of the clients 1 .. n at time 0: each
\* request found no counter and appended its own as the most recently used.
CacheAfterEarlier(n) ==
    [i \in 1..n |->
        [key      |-> ClientIp(EarlierRequest(i)),
         value    |-> StoredValue(Token([cache |-> <<>>, value |-> None], 0)),
         ttlStart |-> 0]]

InitCapacity ==
    /\ env = Some(<<"2">>)
    /\ RATE_LIMIT_MAX_REQUESTS = MaxRequestsFromEnv(env)
    /\ rateLimitCache = CacheAfterEarlier(CacheMax - 1)
    /\ now = 0
    /\ pending = EmptyBag
    /\ last = Some([request  |-> EarlierRequest(CacheMax - 1),
                    fresh    |-> TRUE,
                    blocked  |-> FALSE,
                    changed  |-> TRUE,
                    dropped  |-> {},
                    waiting  |-> 0,
                    response |-> MatchedResponse(
                                    CacheAfterEarlier(CacheMax - 2), 0,
                                    MaxRequestsFromEnv(env),
                                    EarlierRequest(CacheMax - 1))])
    /\ hits = [k \in CacheKeys(CacheAfterEarlier(CacheMax - 1)) |-> 1]
    /\ blocked = {}
    /\ handlers = <<>>
    /\ Page = MountedPage
    /\ recency = [i \in 1..(CacheMax - 1) |-> ClientIp(EarlierRequest(i))]
    /\ evicted = {}

\* Further requests: of the clients "a" and "1" and of a client that sends
\* no x-forwarded-for header.
CapacityRequests ==
    [pathname : {ProtectedPrefix},
     xff : {None, Some(<<"a">>), Some(DigitsOf(1))}]

NextCapacity == \E r \in CapacityRequests : Proxy(r)

SpecCapacity == InitCapacity /\ [][NextCapacity]_vars

\* The store near its capacity when its least recently used client has
\* been rejected: client "1" sent three matched requests at time 0, the third
\* over the ceiling 2, and then the clients "2", "3", ... sent one each.
CacheAfterRejected ==
    [i \in 1..(CacheMax - 1) |->
        IF i = 1
        THEN [CacheAfterEarlier(1)[1] EXCEPT
                 !.value = StoredValue(StoredValue(@))]
        ELSE CacheAfterEarlier(CacheMax - 1)[i]]

InitDisplaced ==
    /\ env = Some(<<"2">>)
    /\ RATE_LIMIT_MAX_REQUESTS = MaxRequestsFromEnv(env)
    /\ rateLimitCache = CacheAfterRejected
    /\ now = 0
    /\ pending = EmptyBag
    /\ last = Some([request  |-> EarlierRequest(CacheMax - 1),
                    fresh    |-> TRUE,
                    blocked  |-> FALSE,
                    changed  |-> TRUE,
                    dropped  |-> {},
                    waiting  |-> 0,
                    response |-> MatchedResponse(
                                    CacheAfterEarlier(CacheMax - 2), 0,
                                    MaxRequestsFromEnv(env),
                                    EarlierRequest(CacheMax - 1))])
    /\ hits = [k \in CacheKeys(CacheAfterRejected) |->
                  CacheEntry(CacheAfterRejected, k).value.count]
    /\ blocked = {ClientIp(EarlierRequest(1))}
    /\ handlers = <<>>
    /\ Page = MountedPage
    /\ recency = [i \in 1..(CacheMax - 1) |-> ClientIp(EarlierRequest(i))]
    /\ evicted = {}

NextDisplaced == \E r \in CapacityRequests : Proxy(r)

SpecDisplaced == InitDisplaced /\ [][NextDisplaced]_vars

\* The store at its capacity while time passes: CacheMax clients "1", "2",
\* ... have each sent one matched request at time 0; then the clients "1"
\* and "a" send requests, half a window apart or at once.
InitKept ==
    /\ env = Some(<<"2">>)
    /\ RATE_LIMIT_MAX_REQUESTS = MaxRequestsFromEnv(env)
    /\ rateLimitCache = CacheAfterEarlier(CacheMax)
    /\ now = 0
    /\ pending = EmptyBag
    /\ last = None
    /\ hits = [k \in CacheKeys(CacheAfterEarlier(CacheMax)) |-> 1]
    /\ blocked = {}
    /\ handlers = <<>>
    /\ Page = MountedPage
    /\ recency = [i \in 1..CacheMax |-> ClientIp(EarlierRequest(i))]
    /\ evicted = {}

KeptRequests ==
    [pathname : {ProtectedPrefix}, xff : {Some(<<"a">>), Some(DigitsOf(1))}]

NextKept ==
    \/ \E r \in KeptRequests : Proxy(r)
    \/ Tick(HalfWindow)

SpecKept == InitKept /\ [][NextKept]_vars

\* Clients told apart by their x-forwarded-for header: none, "a", the chains
\* "a,b" and "a,c", the empty header and the chain ",a".
KeyXffValues ==
    {None, Some(<<"a">>), Some(<<"a", ",", "b">>), Some(<<"a", ",", "c">>),
     Some(<<>>), Some(<<",", "a">>)}

KeyRequests == [pathname : {ProtectedPrefix}, xff : KeyXffValues]

InitKeys == InitWith({Some(<<"2">>)})

NextKeys == \E r \in KeyRequests : Proxy(r)

SpecKeys == InitKeys /\ [][NextKeys]_vars

---------------------------------------------------------------------------
(* The route handler POST of /api/generate behind the proxy.  The framework *)
(* calls proxy first and runs the handler only when proxy answers with the *)
(* continuation signal; any other response of proxy is sent to the client  *)
(* as it is.  A call of POST is a record                                   *)
(*   [gate, body, pc, finalGameUrl, search, data, calls, failed, file,     *)
(*    bytes, fileBuffer, response]                                         *)
(* gate is the response proxy gave for the request, pc the await the call  *)
(* is suspended at, calls the external operations it has performed in      *)
(* order, failed those of them that threw, file the state of its temporary *)
(* file, bytes what the file holds, fileBuffer what was read from it.      *)

\* The framework runs the route handler after proxy iff the response of proxy
\* is the one made by NextResponse.next().
Continues(response) == HasHeader(response.headers, "x-middleware-next")

\* The request bodies: text that is not JSON, and JSON objects with the
\* fields below (a field that is None is absent; aspectRatio, margin and
\* is4k are those of renderOptions, aspectRatio a value with its JavaScript
\* type).
NotJson == [json |-> FALSE]
JsonBody(mode, gameTitle, url, manualData, aspectRatio) ==
    [json |-> TRUE, mode |-> mode, gameTitle |-> gameTitle, platform |-> None,
     url |-> url, manualData |-> manualData, aspectRatio |-> aspectRatio,
     margin |-> None, is4k |-> None]

\* Texts the handler looks into are sequences of characters: 'Halo',
\* 'Halo 2', 'Manual Entry', 'http://e/1', 'https://www.esrb.org'.
GameTitle == <<"H", "a", "l", "o">>
OtherTitle == <<"H", "a", "l", "o", " ", "2">>
ManualEntry == <<"M", "a", "n", "u", "a", "l", " ", "E", "n", "t", "r", "y">>
ProvidedUrl == <<"h", "t", "t", "p", ":", "/", "/", "e", "/", "1">>
EsrbOrigin ==
    <<"h", "t", "t", "p", "s", ":", "/", "/", "w", "w", "w", ".", "e", "s",
      "r", "b", ".", "o", "r", "g">>
RatedManualData == [ratingCategory |-> "E"]
UnratedManualData == [ratingCategory |-> ""]

\* String.prototype.toLowerCase on the letters the titles are written with.
LowerCase ==
    ("H" :> "h") @@ ("A" :> "a") @@ ("L" :> "l") @@ ("O" :> "o")
        @@ ("M" :> "m") @@ ("E" :> "e")
ToLowerCase(s) ==
    [i \in 1..Len(s) |->
        IF s[i] \in DOMAIN LowerCase THEN LowerCase[s[i]] ELSE s[i]]

\* encodeURIComponent on the characters the texts are written with: letters,
\* digits and '.' are kept, ':', '/' and ' ' are percent-encoded.
PercentCodes ==
    (":" :> <<"%", "3", "A">>) @@ ("/" :> <<"%", "2", "F">>)
        @@ (" " :> <<"%", "2", "0">>)
RECURSIVE encodeURIComponent(_)
encodeURIComponent(s) ==
    IF s = <<>> THEN <<>>
    ELSE (IF Head(s) \in DOMAIN PercentCodes THEN PercentCodes[Head(s)]
          ELSE <<Head(s)>>) \o encodeURIComponent(Tail(s))

\* title.replace(/[^a-z0-9]/gi, '_').toLowerCase()
FileNameOf(title) ==
    ToLowerCase([i \in 1..Len(title) |->
        IF title[i] \in DOMAIN PercentCodes \cup {"."} THEN "_" ELSE title[i]])

\* What the search page holds: None when the fetch or the reading of the
\* page fails, else the '.game' elements in order, each with the text of its
\* '.heading a' and the href of it (None when there is no href).
Game(title, href) == [title |-> title, href |-> href]
SearchPages ==
    {None,
     Some(<<>>),
     Some(<<Game(OtherTitle, Some(<<"/", "2">>)),
            Game(<<" ", "H", "A", "L", "O", " ">>, Some(<<"/", "1">>))>>),
     Some(<<Game(OtherTitle, Some(<<"/", "2">>))>>),
     Some(<<Game(GameTitle, None), Game(OtherTitle, Some(<<"/", "2">>))>>),
     Some(<<Game(OtherTitle, Some(<<"/", "2">>)), Game(GameTitle, Some(<<>>))>>),
     Some(<<Game(GameTitle, Some(ProvidedUrl))>>)}

\* A text that is present and not empty.
TruthyText(x) == x # None /\ x[1] # <<>>

\* Variant: the first result is taken, whatever its title.
findGameUrlFirstOnly(query, page) ==
    IF page = None \/ page[1] = <<>> \/ ~TruthyText(page[1][1].href) THEN None
    ELSE Some(IF StartsWith(page[1][1].href[1], <<"h", "t", "t", "p">>)
              THEN page[1][1].href[1]
              ELSE EsrbOrigin \o page[1][1].href[1])

\* findGameUrl(query) on the search page that the fetch returned.
findGameUrl(query, page) ==
    IF page = None THEN None
    ELSE LET games == page[1]
             normalizedQuery == Trim(ToLowerCase(query))
             exact == {i \in 1..Len(games) :
                          /\ ToLowerCase(Trim(games[i].title)) = normalizedQuery
                          /\ TruthyText(games[i].href)}
             targetUrl ==
                 IF exact # {}
                 THEN games[CHOOSE i \in exact : \A j \in exact : i <= j].href
                 ELSE IF games # <<>> /\ TruthyText(games[1].href)
                 THEN games[1].href
                 ELSE None
         IN  IF targetUrl = None THEN None
             ELSE Some(IF StartsWith(targetUrl[1], <<"h", "t", "t", "p">>)
                       THEN targetUrl[1]
                       ELSE EsrbOrigin \o targetUrl[1])

\* The data the scraper returns: from a page URL, and from a title lookup.
ScrapedFromUrl(url) ==
    [source |-> "url", from |-> <<url>>, title |-> OtherTitle,
     ratingCategory |-> "T"]
ScrapedByTitle(gameTitle, platform) ==
    [source |-> "title", from |-> <<gameTitle, platform>>, title |-> GameTitle,
     ratingCategory |-> "M"]
ManualData(manualData) ==
    [source |-> "manual", from |-> <<>>, title |-> ManualEntry,
     ratingCategory |-> manualData.ratingCategory]

Bodies ==
    {NotJson,
     JsonBody(Some("scrape"), None, None, None, None),
     JsonBody(Some("scrape"), Some(<<>>), None, None, None),
     JsonBody(Some("scrape"), Some(GameTitle), None, None, None),
     JsonBody(Some("url"), None, None, None, None),
     JsonBody(Some("url"), None, Some(ProvidedUrl), None, None),
     JsonBody(Some("manual"), None, None, None, None),
     JsonBody(Some("manual"), None, None, Some(UnratedManualData), None),
     JsonBody(Some("manual"), None, None, Some(RatedManualData), None),
     JsonBody(Some("manual"), None, None, Some(RatedManualData),
              Some([type |-> "number", value |-> 16])),
     JsonBody(Some("other"), None, None, None, None),
     JsonBody(Some("other"), None, None, None,
              Some([type |-> "number", value |-> 16])),
     JsonBody(None, None, None, None, None)}

\* A call of POST at its entry.
NewInvocation(gate, body) ==
    [gate         |-> gate,
     body         |-> body,
     pc           |-> "json",
     finalGameUrl |-> <<>>,
     search       |-> None,
     data         |-> None,
     calls        |-> <<>>,
     failed       |-> <<>>,
     file         |-> "none",
     bytes        |-> None,
     fileBuffer   |-> None,
     response     |-> None]

\* NextResponse.json({ error: message }, { status })
NextResponseJson(message, status) ==
    [status  |-> status,
     headers |-> SetHeader(EmptyHeaders, "Content-Type", "application/json"),
     body    |-> Some(JsonError(message))]

\* The call h returns the JSON error response.
Returned(h, message, status) ==
    [h EXCEPT !.pc = "done", !.response = Some(NextResponseJson(message, status))]

\* The call h performs the external operation op and goes on at pc.
Performed(h, op, pc) == [h EXCEPT !.calls = Append(@, op), !.pc = pc]

\* The external operation op that the call h has performed threw.
Threw(h, op) == [h EXCEPT !.failed = Append(@, op)]

\* Variant: POST has no outer catch; an error thrown outside the inner
\* try blocks rejects the promise of POST and the call has no response.
OuterCatchRethrowing(h) == [h EXCEPT !.pc = "done", !.response = None]

\* The outer catch of POST: any error thrown outside the inner try blocks
\* is answered with status 500.
OuterCatch(h) == Returned(h, "Internal Server Error", 500)

\* Variant: a failed title lookup is answered with status 404.
ScrapeFailedAsNotFound(h) ==
    Returned(h, "Failed to scrape game data. Ensure the title is correct or try manual mode.", 404)

\* The response to a failure of the title lookup of the catch block.
ScrapeFailed(h) ==
    Returned(h, "Failed to scrape game data. Ensure the title is correct or try manual mode.", 500)

\* aspectRatio.split('/') throws when aspectRatio is given and is no string.
SplitThrows(body) ==
    body.aspectRatio # None /\ body.aspectRatio[1].type # "string"

\* !x of an optional string: absent or empty.
Falsy(x) == x = None \/ x[1] = <<>>

\* Variant: scrape mode does not check the game title.
DispatchWithoutTitleCheck(h) ==
    LET body == h.body
    IN  IF SplitThrows(body)
        THEN OuterCatch(h)
        ELSE IF body.mode = Some("scrape")
        THEN [h EXCEPT !.pc = "findGameUrl"]
        ELSE IF body.mode = Some("url")
        THEN IF Falsy(body.url)
             THEN Returned(h, "URL is required for URL mode.", 400)
             ELSE [h EXCEPT !.finalGameUrl = body.url[1],
                            !.pc = "getGameDataFromUrl"]
        ELSE IF body.mode = Some("manual")
        THEN IF body.manualData = None
                    \/ body.manualData[1].ratingCategory = ""
             THEN Returned(h, "Missing required manual data fields.", 400)
             ELSE [h EXCEPT !.data = Some(ManualData(body.manualData[1])),
                            !.pc = "generate"]
        ELSE Returned(h, "Invalid mode.", 400)

\* From the parsed body to the first await of the mode, or to the response.
Dispatch(h) ==
    LET body == h.body
    IN  IF SplitThrows(body)
        THEN OuterCatch(h)
        ELSE IF body.mode = Some("scrape")
        THEN IF Falsy(body.gameTitle)
             THEN Returned(h, "Game title is required for scraping.", 400)
             ELSE [h EXCEPT !.pc = "findGameUrl"]
        ELSE IF body.mode = Some("url")
        THEN IF Falsy(body.url)
             THEN Returned(h, "URL is required for URL mode.", 400)
             ELSE [h EXCEPT !.finalGameUrl = body.url[1],
                            !.pc = "getGameDataFromUrl"]
        ELSE IF body.mode = Some("manual")
        THEN IF body.manualData = None
                    \/ body.manualData[1].ratingCategory = ""
             THEN Returned(h, "Missing required manual data fields.", 400)
             ELSE [h EXCEPT !.data = Some(ManualData(body.manualData[1])),
                            !.pc = "generate"]
        ELSE Returned(h, "Invalid mode.", 400)

\* Variant: the image response is sent without a body.
ImageResponseWithoutBody(h) ==
    [status  |-> 200,
     headers |-> SetHeader(EmptyHeaders, "Content-Type", "image/png"),
     body    |-> None]

\* parseFloat(s): the number of the longest prefix of s, after leading
\* whitespace and an optional sign, that is a decimal literal; NaN when
\* there is none.
parseFloat(s) ==
    LET t == TrimLeft(s)
        u == IF t # <<>> /\ Head(t) \in {"-", "+"} THEN Tail(t) ELSE t
        literal == {n \in 1..Len(u) : ~StrUnsignedDecimal(SubSeq(u, 1, n)).nan}
        x == StrUnsignedDecimal(
                 SubSeq(u, 1, CHOOSE n \in literal : \A m \in literal : m <= n))
    IN  IF literal = {} THEN NaN
        ELSE IF Head(t) = "-" THEN Negate(x) ELSE x

\* s.split(sep) for a separator of one character.
RECURSIVE Split(_, _)
Split(s, sep) ==
    IF \A i \in 1..Len(s) : s[i] # sep THEN <<s>>
    ELSE LET p == CHOOSE i \in 1..Len(s) :
                     s[i] = sep /\ \A j \in 1..(i - 1) : s[j] # sep
         IN  <<SubSeq(s, 1, p - 1)>> \o Split(SubSeq(s, p + 1, Len(s)), sep)

\* h / w for numbers h and w > 0: the fraction in lowest terms.
RECURSIVE Gcd(_, _)
Gcd(a, b) == IF b = 0 THEN a ELSE Gcd(b, a % b)
Quotient(h, w) ==
    LET n == h.n * w.d
        d == h.d * w.n
        g == Gcd(IF n < 0 THEN -n ELSE n, d)
    IN  [nan |-> FALSE, n |-> n \div g, d |-> d \div g]

\* Variant: the factor is w / h.
HeightFactorInverted(aspectRatio) ==
    LET parts == Split(aspectRatio[1].value, "/")
        w == parseFloat(parts[1])
        h == parseFloat(parts[2])
    IN  IF aspectRatio = None \/ aspectRatio[1].value = <<"a", "u", "t", "o">>
        THEN Int2Num(0)
        ELSE IF Len(parts) = 2 /\ ~w.nan /\ ~h.nan /\ w.n > 0 /\ h.n > 0
        THEN Quotient(w, h)
        ELSE Int2Num(0)

\* heightFactor, for an aspectRatio that is absent or a string.
HeightFactor(aspectRatio) ==
    LET parts == Split(aspectRatio[1].value, "/")
        w == parseFloat(parts[1])
        h == parseFloat(parts[2])
    IN  IF aspectRatio = None \/ aspectRatio[1].value = <<"a", "u", "t", "o">>
        THEN Int2Num(0)
        ELSE IF Len(parts) = 2 /\ ~w.nan /\ ~h.nan /\ w.n > 0
        THEN Quotient(h, w)
        ELSE Int2Num(0)

\* const { is4k = false, margin = 0 } = renderOptions || {}
Margin(body) == IF body.margin = None THEN 0 ELSE body.margin[1]
Is4k(body) == IF body.is4k = None THEN FALSE ELSE body.is4k[1]

\* What renderer.generate(data, tempFilePath, margin, is4k, heightFactor)
\* writes to the temporary file, whole or in part.
Slate(h, complete) ==
    [data         |-> h.data[1],
     margin       |-> Margin(h.body),
     is4k         |-> Is4k(h.body),
     heightFactor |-> HeightFactor(h.body.aspectRatio),
     complete     |-> complete]

\* The response that carries the image.
ImageResponse(h) ==
    LET data == h.data[1]
        meta ==
            SetHeader(
                SetHeader(
                    SetHeader(
                        SetHeader(EmptyHeaders, "Content-Type", "image/png"),
                        "Content-Disposition",
                        <<"attachment; filename=\"esrb-slate-",
                          FileNameOf(data.title), ".png\"">>),
                    "X-ESRB-Game-Title", encodeURIComponent(data.title)),
                "X-ESRB-Rating", data.ratingCategory)
    IN  [status  |-> 200,
         headers |->
            IF h.finalGameUrl # <<>>
            THEN SetHeader(meta, "X-ESRB-Game-Url",
                           encodeURIComponent(h.finalGameUrl))
            ELSE meta,
         body    |-> h.fileBuffer]

GateVars ==
    <<env, RATE_LIMIT_MAX_REQUESTS, rateLimitCache, now, pending, last, hits,
      blocked, Page, recency, evicted>>

\* The call i of POST goes on to h2.
Resume(i, h2) ==
    /\ handlers' = [handlers EXCEPT ![i] = h2]
    /\ UNCHANGED GateVars

\* A POST request with body b is received: proxy is called for it and, when
\* proxy lets it continue, POST is entered.  The body of a request that
\* does not continue is never read: NotJson stands for all of them.
Receive(r, b) ==
    /\ pending = EmptyBag
    /\ Continues(Result(r).response) => Len(handlers) < MaxHandlers
    /\ ~Continues(Result(r).response) => b = NotJson
    /\ Call(r)
    /\ handlers' = IF Continues(Result(r).response)
                   THEN Append(handlers, NewInvocation(Result(r).response, b))
                   ELSE handlers
    /\ UNCHANGED <<pending, Page>>

\* await req.json(), then the synchronous code up to the next await.
ParseBody(i) ==
    /\ handlers[i].pc = "json"
    /\ Resume(i, IF handlers[i].body.json THEN Dispatch(handlers[i])
                 ELSE OuterCatch(handlers[i]))

\* await findGameUrl(gameTitle): the search page is fetched and looked
\* through; a failure is caught inside findGameUrl.
FindGameUrl(i, page) ==
    LET h == [Performed(IF page = None THEN Threw(handlers[i], "fetch")
                        ELSE handlers[i], "fetch", "")
                 EXCEPT !.search = Some(page)]
        foundUrl == findGameUrl(h.body.gameTitle[1], page)
    IN  /\ handlers[i].pc = "findGameUrl"
        /\ Resume(i, IF foundUrl # None
                     THEN [h EXCEPT !.finalGameUrl = foundUrl[1],
                                    !.pc = "getGameDataFromUrl"]
                     ELSE [h EXCEPT !.pc = "getGameData"])

\* await scraper.getGameDataFromUrl(...), of the scrape and of the url mode.
GetGameDataFromUrl(i, ok) ==
    LET h == Performed(handlers[i], "getGameDataFromUrl", "generate")
    IN  /\ handlers[i].pc = "getGameDataFromUrl"
        /\ Resume(i,
             IF ok THEN [h EXCEPT !.data = Some(ScrapedFromUrl(h.finalGameUrl))]
             ELSE IF h.body.mode = Some("scrape")
             THEN [Threw(h, "getGameDataFromUrl") EXCEPT
                      !.pc = "getGameDataRetry"]
             ELSE Returned(Threw(h, "getGameDataFromUrl"), "Failed to scrape game data from URL. Ensure the URL is correct.", 500))

\* await scraper.getGameData(gameTitle, platform) when the search found no URL.
GetGameData(i, ok) ==
    LET h == Performed(handlers[i], "getGameData", "generate")
    IN  /\ handlers[i].pc = "getGameData"
        /\ Resume(i, IF ok THEN [h EXCEPT !.data = Some(ScrapedByTitle(h.body.gameTitle[1],
                                                     h.body.platform))]
                     ELSE [Threw(h, "getGameData") EXCEPT
                              !.pc = "getGameDataRetry"])

\* await scraper.getGameData(gameTitle, platform) of the catch block.
GetGameDataRetry(i, ok) ==
    LET h == Performed(handlers[i], "getGameData", "generate")
    IN  /\ handlers[i].pc = "getGameDataRetry"
        /\ Resume(i,
             IF ok THEN [h EXCEPT !.data = Some(ScrapedByTitle(h.body.gameTitle[1],
                                                     h.body.platform))]
             ELSE ScrapeFailed(Threw(h, "getGameData")))

\* await renderer.generate(data, tempFilePath, ...): on failure the file may
\* or may not have been created.
Generate(i, ok, written) ==
    LET h == Performed(handlers[i], "generate", "readFile")
    IN  /\ handlers[i].pc = "generate"
        /\ ok => written
        /\ Resume(i,
             IF ok THEN [h EXCEPT !.file = "written",
                                  !.bytes = Some(Slate(h, TRUE))]
             ELSE [Returned(Threw(h, "generate"), "Failed to generate image.", 500)
                      EXCEPT !.file = IF written THEN "written" ELSE "none",
                             !.bytes = IF written THEN Some(Slate(h, FALSE))
                                       ELSE None])

\* await fs.readFile(tempFilePath)
ReadFile(i, ok) ==
    LET h == Performed(handlers[i], "readFile", "unlink")
    IN  /\ handlers[i].pc = "readFile"
        /\ Resume(i, IF ok THEN [h EXCEPT !.fileBuffer = h.bytes]
                     ELSE OuterCatch(Threw(h, "readFile")))

\* await fs.unlink(tempFilePath).catch(console.error), then the response.
Unlink(i, ok) ==
    LET h == Performed(handlers[i], "unlink", "done")
    IN  /\ handlers[i].pc = "unlink"
        /\ Resume(i, [(IF ok THEN h ELSE Threw(h, "unlink")) EXCEPT
                         !.file = IF ok THEN "unlinked" ELSE @,
                         !.bytes = IF ok THEN None ELSE @,
                         !.response = Some(ImageResponse(h))])

\* The response of the call i has been sent: the call is over.
Close(i) ==
    /\ handlers[i].pc = "done"
    /\ handlers' = [j \in 1..(Len(handlers) - 1) |->
                        IF j < i THEN handlers[j] ELSE handlers[j + 1]]
    /\ UNCHANGED GateVars

\* POST requests to '/api/generate' of one client.
PipelineRequests == [pathname : {ProtectedPrefix}, xff : {None}]

\* The search pages of the pipeline: the failed fetch and a page with an
\* exact match.
PipelinePages ==
    {None,
     Some(<<Game(OtherTitle, Some(<<"/", "2">>)),
            Game(<<" ", "H", "A", "L", "O", " ">>, Some(<<"/", "1">>))>>)}

InitPipeline == InitWith({Some(<<"1">>), Some(<<"2">>)})

\* The calls of POST in progress.
Invocations == 1..Len(handlers)

NextPipeline ==
    \/ \E r \in PipelineRequests, b \in Bodies : Receive(r, b)
    \/ \E i \in Invocations : ParseBody(i)
    \/ \E i \in Invocations, page \in PipelinePages : FindGameUrl(i, page)
    \/ \E i \in Invocations, ok \in BOOLEAN : GetGameDataFromUrl(i, ok)
    \/ \E i \in Invocations, ok \in BOOLEAN : GetGameData(i, ok)
    \/ \E i \in Invocations, ok \in BOOLEAN : GetGameDataRetry(i, ok)
    \/ \E i \in Invocations, ok, written \in BOOLEAN : Generate(i, ok, written)
    \/ \E i \in Invocations, ok \in BOOLEAN : ReadFile(i, ok)
    \/ \E i \in Invocations, ok \in BOOLEAN : Unlink(i, ok)
    \/ \E i \in Invocations : Close(i)

SpecPipeline == InitPipeline /\ [][NextPipeline]_vars

\* Scrape mode against each of the search pages: the body is
\* { mode: 'scrape', gameTitle: 'Halo', platform: 'PC' }, or no JSON.
SearchBodies ==
    {NotJson,
     [JsonBody(Some("scrape"), Some(GameTitle), None, None, None)
         EXCEPT !.platform = Some("PC")]}

InitSearch == InitWith({Some(<<"2">>)})

NextSearch ==
    \/ \E r \in PipelineRequests, b \in SearchBodies : Receive(r, b)
    \/ \E i \in Invocations : ParseBody(i)
    \/ \E i \in Invocations, page \in SearchPages : FindGameUrl(i, page)
    \/ \E i \in Invocations, ok \in BOOLEAN : GetGameDataFromUrl(i, ok)
    \/ \E i \in Invocations, ok \in BOOLEAN : GetGameData(i, ok)
    \/ \E i \in Invocations, ok \in BOOLEAN : GetGameDataRetry(i, ok)
    \/ \E i \in Invocations, ok, written \in BOOLEAN : Generate(i, ok, written)
    \/ \E i \in Invocations, ok \in BOOLEAN : ReadFile(i, ok)
    \/ \E i \in Invocations, ok \in BOOLEAN : Unlink(i, ok)
    \/ \E i \in Invocations : Close(i)

SpecSearch == InitSearch /\ [][NextSearch]_vars

\* Manual mode with render options: the aspectRatio texts 'auto', '21/9',
\* '16/9', '16', 'a/9', '0/9', '-1/9', '16/9/1', '16x/9', '16/', '1.5/1' and
\* '4/-3', an aspectRatio that is absent and one that is the number 16;
\* margin and is4k absent, or 10 and true.
AspectRatioTexts ==
        {<<"a", "u", "t", "o">>,
         <<"2", "1", "/", "9">>,
         <<"1", "6", "/", "9">>,
         <<"1", "6">>,
         <<"a", "/", "9">>,
         <<"0", "/", "9">>,
         <<"-", "1", "/", "9">>,
         <<"1", "6", "/", "9", "/", "1">>,
         <<"1", "6", "x", "/", "9">>,
         <<"1", "6", "/">>,
         <<"1", ".", "5", "/", "1">>,
         <<"4", "/", "-", "3">>}

RenderBody(aspectRatio, margin, is4k) ==
    [JsonBody(Some("manual"), None, None, Some(RatedManualData), aspectRatio)
        EXCEPT !.margin = margin, !.is4k = is4k]

RenderBodies ==
    {NotJson,
     RenderBody(None, None, None),
     RenderBody(None, Some(10), Some(TRUE)),
     RenderBody(Some([type |-> "number", value |-> <<"1", "6">>]), None, None)}
        \cup {RenderBody(Some([type |-> "string", value |-> text]), None, None) :
                 text \in AspectRatioTexts}
        \cup {RenderBody(Some([type |-> "string", value |-> <<"2", "1", "/", "9">>]),
                         Some(10), Some(TRUE))}

InitRender == InitWith({Some(<<"2">>)})

NextRender ==
    \/ \E r \in PipelineRequests, b \in RenderBodies : Receive(r, b)
    \/ \E i \in Invocations : ParseBody(i)
    \/ \E i \in Invocations, ok, written \in BOOLEAN : Generate(i, ok, written)
    \/ \E i \in Invocations, ok \in BOOLEAN : ReadFile(i, ok)
    \/ \E i \in Invocations, ok \in BOOLEAN : Unlink(i, ok)
    \/ \E i \in Invocations : Close(i)

SpecRender == InitRender /\ [][NextRender]_vars

---------------------------------------------------------------------------
(* The Page component in one browser.  handleGenerate is an async function: *)
(* a call of it runs to its first await, the fetch, and is resumed when the *)
(* fetch, and then res.json() or res.blob(), settles; between these steps   *)
(* the component renders and handles further events.                        *)

\* Response.ok
Ok(res) == res.status >= 200 /\ res.status <= 299

\* decodeURIComponent on texts that encodeURIComponent made.
PercentDecodes ==
    [code \in {PercentCodes[c] : c \in DOMAIN PercentCodes} |->
        CHOOSE c \in DOMAIN PercentCodes : PercentCodes[c] = code]
RECURSIVE decodeURIComponent(_)
decodeURIComponent(s) ==
    IF s = <<>> THEN <<>>
    ELSE IF Len(s) >= 3 /\ SubSeq(s, 1, 3) \in DOMAIN PercentDecodes
    THEN <<PercentDecodes[SubSeq(s, 1, 3)]>>
             \o decodeURIComponent(SubSeq(s, 4, Len(s)))
    ELSE <<Head(s)>> \o decodeURIComponent(Tail(s))

\* res.headers.get(name) || ''
HeaderOrEmpty(res, name) ==
    IF HasHeader(res.headers, name) THEN res.headers[name] ELSE <<>>

\* The error messages of the server, and (await res.json()).error for a
\* body that JSON.stringify made of { error: message }.
ServerMessages ==
    {"Too Many Requests", "Internal Server Error", "Invalid mode.",
     "Game title is required for scraping.", "URL is required for URL mode.",
     "Missing required manual data fields.", "Failed to generate image.",
     "Failed to scrape game data. Ensure the title is correct or try manual mode.",
     "Failed to scrape game data from URL. Ensure the URL is correct."}
ErrorOf(res) ==
    IF \E m \in ServerMessages : res.body = Some(JsonError(m))
    THEN CHOOSE m \in ServerMessages : res.body = Some(JsonError(m))
    ELSE ""

\* The props Page gives to the Generate button, and the attributes of the
\* <button> element Button renders: disabled={isLoading || props.disabled}
\* comes first and {...props} after it, so an attribute of props wins.
ButtonProps ==
    [disabled |-> \/ Page.mode = "scrape" /\ Page.gameTitle = <<>>
                  \/ Page.mode = "url" /\ Page.url = <<>>]
Button(isLoading, props) ==
    props @@ [disabled |-> isLoading
                              \/ ("disabled" \in DOMAIN props /\ props.disabled)]
GenerateButton == Button(Page.loading, ButtonProps)
ButtonText == IF Page.loading THEN "Generating..." ELSE "Generate Slate"

\* The payload handleGenerate builds from the form.
Payload ==
    JsonBody(Some(Page.mode),
             IF Page.mode = "scrape" THEN Some(Page.gameTitle) ELSE None,
             IF Page.mode = "url" THEN Some(Page.url) ELSE None,
             IF Page.mode = "manual" THEN Some(RatedManualData) ELSE None,
             Some([type |-> "string", value |-> <<"a", "u", "t", "o">>]))

\* What the fetch of '/api/generate' can resolve to: the rejection of proxy,
\* an error response of POST, and the image responses of POST for data
\* scraped from a URL and for manual data.
PageResponses ==
    LET url == [NewInvocation(NextResponseNext,
                    JsonBody(Some("url"), None, Some(ProvidedUrl), None, None))
                   EXCEPT !.finalGameUrl = ProvidedUrl,
                          !.data = Some(ScrapedFromUrl(ProvidedUrl))]
        manual == [NewInvocation(NextResponseNext,
                       JsonBody(Some("manual"), None, None,
                                Some(RatedManualData), None))
                      EXCEPT !.data = Some(ManualData(RatedManualData))]
    IN  {RejectResponse(RATE_LIMIT_MAX_REQUESTS),
         NextResponseJson("Failed to scrape game data. Ensure the title is correct or try manual mode.", 500),
         ImageResponse([url EXCEPT !.fileBuffer = Some(Slate(url, TRUE))]),
         ImageResponse([manual EXCEPT !.fileBuffer = Some(Slate(manual, TRUE))])}

ServerVars ==
    <<env, RATE_LIMIT_MAX_REQUESTS, rateLimitCache, now, pending, last, hits,
      blocked, handlers, recency, evicted>>

\* The calls of handleGenerate in progress, and those without call c.
PageCalls == 1..Len(Page.calls)
CallsWithout(c) ==
    [j \in 1..(Len(Page.calls) - 1) |->
        IF j < c THEN Page.calls[j] ELSE Page.calls[j + 1]]

\* onChange of the Game Title input, and onClick of a mode button.
SetGameTitle(title) ==
    /\ Page.gameTitle # title
    /\ Page' = [Page EXCEPT !.gameTitle = title]
    /\ UNCHANGED ServerVars
SetMode(mode) ==
    /\ Page.mode # mode
    /\ Page' = [Page EXCEPT !.mode = mode]
    /\ UNCHANGED ServerVars

\* A click on the Generate button that is not disabled: handleGenerate up to
\* its await of fetch.
HandleGenerate ==
    /\ ~GenerateButton.disabled
    /\ Page.started < MaxClicks
    /\ Page' = [Page EXCEPT
                   !.loading = TRUE,
                   !.error = None,
                   !.imageUrl = None,
                   !.foundGameInfo = None,
                   !.imageOf = 0,
                   !.errorOf = 0,
                   !.finished = None,
                   !.started = @ + 1,
                   !.calls = Append(@, [id      |-> Page.started + 1,
                                        pc      |-> "fetch",
                                        payload |-> Payload,
                                        res     |-> None])]
    /\ UNCHANGED ServerVars

\* The catch and the finally block of the call c for an Error with message.
Caught(c, message) ==
    [Page EXCEPT !.error = Some(message),
                 !.errorOf = Page.calls[c].id,
                 !.loading = FALSE,
                 !.finished = Some([id |-> Page.calls[c].id,
                                    res |-> Page.calls[c].res]),
                 !.calls = CallsWithout(c)]

\* The fetch of the call c settles: it rejects (res is None), or resolves to
\* the response res[1], and the call goes on to its next await.
FetchSettles(c, res) ==
    /\ Page.calls[c].pc = "fetch"
    /\ Page' = IF res = None THEN Caught(c, "Failed to fetch")
               ELSE [Page EXCEPT !.calls[c].res = res,
                                 !.calls[c].pc = IF Ok(res[1]) THEN "blob"
                                                 ELSE "json"]
    /\ UNCHANGED ServerVars

\* await res.json() of the call c settles: the error is thrown and caught.
ResJson(c) ==
    /\ Page.calls[c].pc = "json"
    /\ Page' = Caught(c, IF ErrorOf(Page.calls[c].res[1]) # ""
                         THEN ErrorOf(Page.calls[c].res[1])
                         ELSE "Failed to generate slate.")
    /\ UNCHANGED ServerVars

\* await res.blob() of the call c settles: the image and the game info are
\* set, then the finally block runs.  The object URL is one per call.
ResBlob(c) ==
    LET res == Page.calls[c].res[1]
        title == decodeURIComponent(HeaderOrEmpty(res, "X-ESRB-Game-Title"))
        urlHeader == decodeURIComponent(HeaderOrEmpty(res, "X-ESRB-Game-Url"))
        rating == IF HasHeader(res.headers, "X-ESRB-Rating")
                  THEN res.headers["X-ESRB-Rating"] ELSE ""
    IN  /\ Page.calls[c].pc = "blob"
        /\ Page' = [Page EXCEPT
                       !.imageUrl = Some([blob |-> res.body,
                                          objectUrl |-> Page.calls[c].id]),
                       !.imageOf = Page.calls[c].id,
                       !.foundGameInfo =
                           IF title # <<>> \/ urlHeader # <<>>
                           THEN Some([title |-> title, url |-> urlHeader,
                                      rating |-> rating])
                           ELSE @,
                       !.loading = FALSE,
                       !.finished = Some([id |-> Page.calls[c].id,
                                          res |-> Page.calls[c].res]),
                       !.calls = CallsWithout(c)]
        /\ UNCHANGED ServerVars

\* The page of one browser against the server's responses, under the
\* ceiling 1.
InitPage == InitWith({Some(<<"1">>)})

NextPage ==
    \/ \E title \in {<<>>, GameTitle} : SetGameTitle(title)
    \/ \E mode \in {"scrape", "url", "manual"} : SetMode(mode)
    \/ HandleGenerate
    \/ \E c \in PageCalls, res \in {None} \cup {Some(r) : r \in PageResponses} :
          FetchSettles(c, res)
    \/ \E c \in PageCalls : ResJson(c)
    \/ \E c \in PageCalls : ResBlob(c)

SpecPage == InitPage /\ [][NextPage]_vars

---------------------------------------------------------------------------
(* Properties of the proxy.                                                *)

\* The latest call was for a request under the protected prefix.
LastMatched == last # None /\ Matched(last[1].request)
LastKey == ClientIp(last[1].request)
LastResponse == last[1].response
LastStatus == last[1].response.status
LastHeaders == last[1].response.headers

\* The ceiling is a whole number of at least 1.
WholeLimit == RATE_LIMIT_MAX_REQUESTS.d = 1 /\ RATE_LIMIT_MAX_REQUESTS.n >= 1
Limit == RATE_LIMIT_MAX_REQUESTS.n

Max(a, b) == IF a >= b THEN a ELSE b

\* C1: with a ceiling L >= 1, the k-th matched request of a key since its
\* counter was created (absent before, not expired or evicted since) is
\* allowed iff k <= L and carries X-RateLimit-Remaining = max(0, L - k): the
\* L-th is allowed with remaining 0 and request L + 1 is the first rejected.
C1_KthRequestAllowedIffWithinLimit ==
    (LastMatched /\ WholeLimit) =>
        LET k == hits[LastKey]
        IN  /\ LastStatus \in {200, 429}
            /\ (LastStatus = 200) <=> (k <= Limit)
            /\ (LastStatus = 200) <=> HasHeader(LastHeaders, "x-middleware-next")
            /\ LastHeaders["X-RateLimit-Remaining"] = ToString(Max(0, Limit - k))

\* The request after the last allowed one has just been rejected.
C1_Witness ==
    /\ LastMatched /\ WholeLimit
    /\ hits[LastKey] = Limit + 1
    /\ LastStatus = 429

\* C2: a key that was rejected stays rejected, request after request, while
\* its counter is neither expired nor evicted, and each of these rejected
\* requests is counted.
C2_RejectedStaysRejected ==
    (LastMatched /\ last[1].blocked /\ ~last[1].fresh) =>
        /\ LastStatus = 429
        /\ CacheHas(rateLimitCache, LastKey)
        /\ CacheEntry(rateLimitCache, LastKey).value.count = hits[LastKey]
        /\ IntGreater(hits[LastKey] - 1, RATE_LIMIT_MAX_REQUESTS)

\* A second rejection in a row, the counter two past the ceiling.
C2_Witness ==
    /\ LastMatched /\ WholeLimit
    /\ last[1].blocked /\ ~last[1].fresh
    /\ LastStatus = 429
    /\ hits[LastKey] = Limit + 2

\* C4 as stated: a matched request of one key leaves the stored counter of
\* every other key as it was.
C4_OthersNeverTouched == LastMatched => last[1].dropped = {}

\* C4, amended: a matched request of key A leaves the stored counter of
\* every other key as it was, except that a request of a key the store does
\* not hold, arriving when the store holds CacheMax keys, drops the least
\* recently used key.
C4_OthersUntouchedUnlessEvicted ==
    [][\A r \in CapacityRequests :
        (Call(r) /\ Matched(r)) =>
            Disturbed(rateLimitCache, rateLimitCache', ClientIp(r)) \subseteq
                (IF /\ ~CacheHas(rateLimitCache, ClientIp(r))
                    /\ Len(rateLimitCache) >= CacheMax
                 THEN {rateLimitCache[1].key}
                 ELSE {})]_vars

\* Client "a" used up its quota in a full store and the counter of every
\* other client is still as it was.
C4_Witness ==
    /\ LastMatched
    /\ LastKey = <<"a">>
    /\ LastStatus = 429
    /\ Len(rateLimitCache) = CacheMax
    /\ last[1].dropped = {}
    /\ \A i \in 1..CacheMax - 1 :
          rateLimitCache[i].key = DigitsOf(i) /\ rateLimitCache[i].value.count = 1

\* C5: a request outside the protected prefix passes (status 200
\* continuation) with no X-RateLimit-* and no Retry-After header and leaves
\* the store as it was, whatever the earlier traffic of its client.
C5_PassThroughIsolation ==
    (last # None /\ ~StartsWith(last[1].request.pathname, ProtectedPrefix)) =>
        /\ LastStatus = 200
        /\ HasHeader(LastHeaders, "x-middleware-next")
        /\ LastResponse.body = None
        /\ ~HasHeader(LastHeaders, "X-RateLimit-Limit")
        /\ ~HasHeader(LastHeaders, "X-RateLimit-Remaining")
        /\ ~HasHeader(LastHeaders, "Retry-After")
        /\ ~last[1].changed
        /\ last[1].dropped = {}

\* A client whose quota on the protected path is used up passes elsewhere.
C5_Witness ==
    /\ last # None /\ last[1].request.pathname = OtherPath
    /\ LastKey \in blocked
    /\ CacheLive(rateLimitCache, LastKey, now)
    /\ LastStatus = 200

\* C6: a request that proxy rejects with 429 never enters POST: every call of
\* POST in progress, and with it every scraper call, render call and
\* temporary file, belongs to a request that proxy answered with the status
\* 200 continuation and not with 429.
C6_RejectedNeverReachesHandler ==
    \A i \in 1..Len(handlers) :
        /\ handlers[i].gate.status # 429
        /\ handlers[i].gate.status = 200
        /\ Continues(handlers[i].gate)

\* A request has just been rejected with 429 while the call of POST of an
\* allowed request has scraped, rendered and written its temporary file.
C6_Witness ==
    /\ last # None
    /\ LastStatus = 429
    /\ \E i \in 1..Len(handlers) :
        /\ handlers[i].file = "written"
        /\ \E m, n \in 1..Len(handlers[i].calls) :
            /\ handlers[i].calls[m] = "getGameDataFromUrl"
            /\ handlers[i].calls[n] = "generate"

\* C7: a rejection is the response 429 with the body
\* {"error":"Too Many Requests"}, Content-Type application/json,
\* X-RateLimit-Limit = the ceiling, X-RateLimit-Remaining = "0" and
\* Retry-After = "900", whatever the age of the counter.
C7_RejectionShape ==
    (last # None /\ LastStatus # 200) =>
        /\ LastStatus = 429
        /\ LastResponse.body = Some("{\"error\":\"Too Many Requests\"}")
        /\ DOMAIN LastHeaders =
              {"Content-Type", "X-RateLimit-Limit", "X-RateLimit-Remaining",
               "Retry-After"}
        /\ LastHeaders["Content-Type"] = "application/json"
        /\ WholeLimit => LastHeaders["X-RateLimit-Limit"] = ToString(Limit)
        /\ LastHeaders["X-RateLimit-Remaining"] = "0"
        /\ LastHeaders["Retry-After"] = "900"

\* A rejection of a counter that is a full window old.
C7_Witness ==
    /\ LastMatched
    /\ LastStatus = 429
    /\ CacheHas(rateLimitCache, LastKey)
    /\ now - CacheEntry(rateLimitCache, LastKey).value.start >= RATE_LIMIT_WINDOW

\* C8: the response to a matched request carries X-RateLimit-Limit = the
\* ceiling and X-RateLimit-Remaining = max(0, ceiling - count stored by this
\* request); it has status 200 and no Retry-After when allowed, and
\* Retry-After is there iff the request was rejected.
C8_RateLimitHeaders ==
    (LastMatched /\ WholeLimit) =>
        LET count == CacheEntry(rateLimitCache, LastKey).value.count
        IN  /\ CacheHas(rateLimitCache, LastKey)
            /\ LastHeaders["X-RateLimit-Limit"] = ToString(Limit)
            /\ LastHeaders["X-RateLimit-Remaining"] = ToString(Max(0, Limit - count))
            /\ LastStatus \in {200, 429}
            /\ HasHeader(LastHeaders, "Retry-After") <=> (LastStatus = 429)
            /\ (count <= Limit) => (LastStatus = 200)

\* An allowed request that leaves a positive remaining quota.
C8_Witness ==
    /\ LastMatched /\ WholeLimit
    /\ LastStatus = 200
    /\ LastHeaders["X-RateLimit-Remaining"] = "1"
    /\ ~HasHeader(LastHeaders, "Retry-After")

\* C3: requests of one key that are in flight together are each counted:
\* whatever the order of the calls, the stored count of a tracked key is the
\* number of matched calls for it since its counter was created.
C3_NoLostUpdate ==
    /\ DOMAIN hits = CacheKeys(rateLimitCache)
    /\ \A i \in 1..Len(rateLimitCache) :
          rateLimitCache[i].value.count = hits[rateLimitCache[i].key]

\* A call counted as the second of its key while a further request of the
\* same key was waiting.
C3_Witness ==
    /\ LastMatched
    /\ last[1].waiting >= 1
    /\ hits[LastKey] = 2
    /\ CacheEntry(rateLimitCache, LastKey).value.count = 2

\* The override is the text of a positive integer: digits only, not zero.
PositiveIntegerText(e) ==
    e # None /\ e[1] # <<>> /\ AllDigits(e[1]) /\ DigitsVal(e[1]) > 0

\* The ceiling C9 states for an override.
C9_StatedCeiling ==
    IF PositiveIntegerText(env) THEN DigitsVal(env[1]) ELSE DefaultMaxRequests

\* C9: the ceiling is the override when that is a valid positive integer and
\* the default 30 otherwise (absent, zero, negative, fractional, not a
\* number, empty), and requests are allowed up to that ceiling.
C9_CeilingFromOverride ==
    LastMatched =>
        /\ LastHeaders["X-RateLimit-Limit"] = ToString(C9_StatedCeiling)
        /\ (LastStatus = 200) <=> (hits[LastKey] <= C9_StatedCeiling)

\* C10: a matched request that finds no counter for its key, or a counter
\* created a full window or more ago, is counted as the first of a new
\* window: count 1, allowed, remaining = limit - 1.
C10_FreshOnceWindowOver ==
    [][\A r \in Requests :
        (/\ Call(r)
         /\ Matched(r)
         /\ WholeLimit
         /\ \/ ~CacheHas(rateLimitCache, ClientIp(r))
            \/ now - CacheEntry(rateLimitCache, ClientIp(r)).value.start
                   >= RATE_LIMIT_WINDOW)
        => /\ CacheEntry(rateLimitCache', ClientIp(r)).value.count = 1
           /\ last'[1].response.status = 200
           /\ last'[1].response.headers["X-RateLimit-Remaining"]
                  = ToString(Limit - 1)]_vars

\* The statement of C10 for counters created more than a full window ago
\* only (the refreshed time-to-live alone keeps these counters).
C10_FreshOnceWindowLongOver ==
    [][\A r \in Requests :
        (/\ Call(r)
         /\ Matched(r)
         /\ WholeLimit
         /\ CacheHas(rateLimitCache, ClientIp(r))
         /\ now - CacheEntry(rateLimitCache, ClientIp(r)).value.start
                > RATE_LIMIT_WINDOW)
        => CacheEntry(rateLimitCache', ClientIp(r)).value.count = 1]_vars

\* The first comma-separated entry of a header value: its longest prefix
\* that holds no comma.
C11_FirstEntry(s) ==
    CHOOSE p \in {SubSeq(s, 1, n) : n \in 0..Len(s)} :
        /\ \A i \in 1..Len(p) : p[i] # ","
        /\ Len(p) = Len(s) \/ s[Len(p) + 1] = ","

\* The client key C11 states for a request.
C11_StatedKey(r) ==
    IF r.xff = None THEN <<"u", "n", "k", "n", "o", "w", "n">>
    ELSE C11_FirstEntry(r.xff[1])

\* C11: the counter of a matched request is kept under the first
\* comma-separated entry of x-forwarded-for, and under "unknown" without the
\* header: the requests with the same such key share one counter, which
\* counts all of them, and the request is rejected iff that count is over the
\* ceiling.
C11_KeyIsFirstEntry ==
    LastMatched =>
        LET k == C11_StatedKey(last[1].request)
        IN  /\ CacheHas(rateLimitCache, k)
            /\ k \in DOMAIN hits
            /\ CacheEntry(rateLimitCache, k).value.count = hits[k]
            /\ (LastStatus = 429) <=> (hits[k] > Limit)
            /\ CacheKeys(rateLimitCache)
                  \subseteq {C11_StatedKey(r) : r \in KeyRequests}

\* The third request under the key "a" came with the chain "a,b" and is
\* rejected while the header-less clients have used one request of theirs.
C11_Witness ==
    /\ LastMatched
    /\ last[1].request.xff = Some(<<"a", ",", "b">>)
    /\ LastStatus = 429
    /\ hits[<<"a">>] = 3
    /\ CacheHas(rateLimitCache, UnknownIp)
    /\ hits[UnknownIp] = 1

\* The header is present but its first entry is empty.
C12_Malformed(r) == r.xff # None /\ C11_FirstEntry(r.xff[1]) = <<>>

\* C12: a matched request whose x-forwarded-for has an empty first entry is
\* counted in the counter of the key "unknown", together with the requests
\* that have no header.
C12_MalformedSharesUnknown ==
    (LastMatched /\ C12_Malformed(last[1].request)) =>
        /\ CacheHas(rateLimitCache, UnknownIp)
        /\ rateLimitCache[Len(rateLimitCache)].key = UnknownIp
        /\ CacheKeys(rateLimitCache) \subseteq {UnknownIp, <<"a">>}

\* C13: the store never holds more than CacheMax (500) client keys, and
\* holds each key once.
C13_AtMostMaxTracked ==
    /\ Len(rateLimitCache) <= CacheMax
    /\ Cardinality(CacheKeys(rateLimitCache)) = Len(rateLimitCache)

\* The store is full and has just dropped a key for one more client.
C13_Witness ==
    /\ Len(rateLimitCache) = CacheMax
    /\ LastMatched
    /\ last[1].fresh
    /\ last[1].dropped # {}

\* C14: a matched request of a key the store does not hold, arriving when the
\* store holds CacheMax keys, drops exactly one key: the one whose latest
\* matched request is the oldest, though its entry has not expired; a
\* matched request of a key the store holds drops no other key.
C14_EvictsLeastRecentlyUsed ==
    [][\A r \in CapacityRequests :
        (Call(r) /\ Matched(r)) =>
            IF /\ ~CacheHas(rateLimitCache, ClientIp(r))
               /\ Len(rateLimitCache) >= CacheMax
            THEN /\ Disturbed(rateLimitCache, rateLimitCache', ClientIp(r))
                        = {recency[1]}
                 /\ CacheLive(rateLimitCache, recency[1], now)
                 /\ ~CacheHas(rateLimitCache', recency[1])
                 /\ Len(rateLimitCache') = CacheMax
            ELSE Disturbed(rateLimitCache, rateLimitCache', ClientIp(r)) = {}
    ]_vars

\* Client "1", the first to be tracked, sent a further request, and the full
\* store then dropped client "2" for a new client and kept client "1".
C14_Witness ==
    /\ LastMatched
    /\ last[1].fresh
    /\ last[1].dropped = {DigitsOf(2)}
    /\ CacheHas(rateLimitCache, DigitsOf(1))
    /\ Len(rateLimitCache) = CacheMax

\* C15: the next matched request of a key that was dropped for capacity is
\* counted as a first request: count 1, allowed, remaining = limit - 1, also
\* when the key had been rejected before it was dropped.
C15_DisplacedStartsAfresh ==
    [][\A r \in CapacityRequests :
        (Call(r) /\ Matched(r) /\ ClientIp(r) \in evicted /\ WholeLimit) =>
            /\ CacheEntry(rateLimitCache', ClientIp(r)).value.count = 1
            /\ last'[1].response.status = 200
            /\ last'[1].response.headers["X-RateLimit-Remaining"]
                  = ToString(Limit - 1)
            /\ ClientIp(r) \notin blocked'
    ]_vars

\* Client "1", rejected and then dropped for capacity, has just been allowed
\* as a new client.
C15_Witness ==
    /\ LastMatched
    /\ LastKey = DigitsOf(1)
    /\ last[1].fresh
    /\ LastStatus = 200
    /\ CacheEntry(rateLimitCache, LastKey).value.count = 1
    /\ hits[LastKey] = 1

\* The requests C16 is about: inside and outside the protected prefix, with
\* the header absent, present, chained, empty and starting with a comma.
C16_Requests ==
    [pathname : Paths \cup {ProtectedPrefix \o <<"/", "x">>},
     xff : KeyXffValues]

\* A response is the continuation (status 200, no body) or the rejection
\* (status 429 with a body, no continuation).
C16_IsDecision(response) ==
    \/ /\ response.status = 200
       /\ Continues(response)
       /\ response.body = None
    \/ /\ response.status = 429
       /\ ~Continues(response)
       /\ response.body # None

\* C16: in every state of the store and for every configured ceiling, proxy
\* returns a response for every request, the 200 continuation or the 429
\* rejection, and leaves a store in which each key is held once; the call
\* made last returned such a response too.
C16_AlwaysAResponse ==
    /\ \A r \in C16_Requests :
          LET res == proxy(rateLimitCache, now, RATE_LIMIT_MAX_REQUESTS, r)
          IN  /\ C16_IsDecision(res.response)
              /\ Cardinality(CacheKeys(res.cache)) = Len(res.cache)
              /\ Matched(r) => CacheHas(res.cache, ClientIp(r))
    /\ last # None => C16_IsDecision(LastResponse)

\* Under the override "-1" the first request of a client has been answered,
\* with the rejection.
C16_Witness ==
    /\ env = Some(<<"-", "1">>)
    /\ LastMatched
    /\ last[1].fresh
    /\ LastStatus = 429

\* The payloads C17 is about: a JSON object whose mode is missing or unknown,
\* or whose mode lacks the field it requires.
C17_Invalid(body) ==
    /\ body.json
    /\ \/ body.mode \notin {Some("scrape"), Some("url"), Some("manual")}
       \/ body.mode = Some("scrape") /\ body.gameTitle \in {None, Some(<<>>)}
       \/ body.mode = Some("url") /\ body.url \in {None, Some(<<>>)}
       \/ /\ body.mode = Some("manual")
          /\ body.manualData \in {None, Some([ratingCategory |-> ""])}

\* The error message C17 states for such a payload.
C17_Message(body) ==
    IF body.mode = Some("scrape") THEN "Game title is required for scraping."
    ELSE IF body.mode = Some("url") THEN "URL is required for URL mode."
    ELSE IF body.mode = Some("manual")
    THEN "Missing required manual data fields."
    ELSE "Invalid mode."

\* The call performs no work: no search fetch, no scraper method, no render
\* and no operation on a temporary file.
C17_NoWork(h) == h.calls = <<>> /\ h.file = "none" /\ h.data = None

C18_Count(s, x) == Cardinality({i \in 1..Len(s) : s[i] = x})

\* The scraper calls of the call h that threw, in order.
C18_FailedLookups(h) ==
    SelectSeq(h.failed, LAMBDA x : x \in {"getGameDataFromUrl", "getGameData"})

\* The call renders or returns no image.
C18_NoImage(h) ==
    /\ \A n \in 1..Len(h.calls) : h.calls[n] # "generate"
    /\ h.file = "none"
    /\ h.response # None => h.response[1].status # 200

C19_NoUrlHeaderAfterFallback ==
    \A i \in Invocations :
        (/\ handlers[i].body.json
         /\ handlers[i].body.mode = Some("scrape")
         /\ handlers[i].response # None
         /\ handlers[i].response[1].status = 200) =>
            (HasHeader(handlers[i].response[1].headers, "X-ESRB-Game-Url")
                <=> handlers[i].data[1].source = "url")

\* Two titles are the same but for case and surrounding blanks.
C20_SameTitle(a, b) == ToLowerCase(Trim(a)) = ToLowerCase(Trim(b))

\* The absolute form of an href.
C20_Absolute(href) ==
    IF Len(href) >= 4 /\ SubSeq(href, 1, 4) = <<"h", "t", "t", "p">>
    THEN href ELSE EsrbOrigin \o href

\* The result C20 states the data is fetched from: the first exact-title
\* match if there is one, the first result otherwise (None without results).
C20_StatedResult(query, page) ==
    IF page = None \/ page[1] = <<>> THEN None
    ELSE LET exact == {i \in 1..Len(page[1]) :
                          C20_SameTitle(page[1][i].title, query)}
         IN  IF exact = {} THEN Some(page[1][1])
             ELSE Some(page[1][CHOOSE i \in exact : \A j \in exact : i <= j])

\* The result the data is fetched from when only the results that have a
\* non-empty href count as exact-title matches and as first result.
C20_UsableResult(query, page) ==
    IF page = None \/ page[1] = <<>> THEN None
    ELSE LET exact == {i \in 1..Len(page[1]) :
                          /\ C20_SameTitle(page[1][i].title, query)
                          /\ page[1][i].href \notin {None, Some(<<>>)}}
         IN  IF exact # {}
             THEN Some(page[1][CHOOSE i \in exact : \A j \in exact : i <= j])
             ELSE IF page[1][1].href \notin {None, Some(<<>>)}
             THEN Some(page[1][1])
             ELSE None

\* The call h, whose search is over, uses getGameDataFromUrl on url first.
C20_FetchedFromUrl(h, url) ==
    /\ h.finalGameUrl = url
    /\ Len(h.calls) >= 2 => h.calls[2] = "getGameDataFromUrl"
    /\ (h.data # None /\ h.failed = <<>>) => h.data[1] = ScrapedFromUrl(url)
    /\ (h.pc = "done" /\ h.failed = <<>>) => h.response[1].status = 200

\* The call h, whose search is over, uses getGameData(gameTitle, platform).
C20_FetchedByTitle(h) ==
    /\ h.finalGameUrl = <<>>
    /\ Len(h.calls) >= 2 => h.calls[2] = "getGameData"
    /\ (h.data # None /\ h.failed \in {<<>>, <<"fetch">>}) =>
          h.data[1] = ScrapedByTitle(h.body.gameTitle[1], h.body.platform)

\* The calls in scrape mode whose search is over.
C20_Searched ==
    {i \in Invocations :
        /\ handlers[i].body.json
        /\ handlers[i].body.mode = Some("scrape")
        /\ handlers[i].search # None}

\* C20: when the search finds a result, the data is fetched with
\* getGameDataFromUrl on the absolute URL of the exact-title match, else of
\* the first result, and the 200 response carries that URL as
\* X-ESRB-Game-Url and the title and rating of the scraped data; when the
\* search fails or finds nothing, getGameData(gameTitle, platform) is used.
C20_SearchResultIsScraped ==
    \A i \in C20_Searched :
        LET h == handlers[i]
            result == C20_StatedResult(h.body.gameTitle[1], h.search[1])
        IN  IF result = None THEN C20_FetchedByTitle(h)
            ELSE /\ Len(h.calls) >= 2 => h.calls[2] = "getGameDataFromUrl"
                 /\ result[1].href \notin {None, Some(<<>>)} =>
                       /\ C20_FetchedFromUrl(h, C20_Absolute(result[1].href[1]))
                       /\ (h.response # None /\ h.failed = <<>>) =>
                             /\ h.response[1].headers["X-ESRB-Game-Url"]
                                   = C20_Absolute(result[1].href[1])
                             /\ h.response[1].headers["X-ESRB-Rating"]
                                   = h.data[1].ratingCategory

\* C20, amended: only results with a non-empty href count, as exact-title
\* match and as first result; the 200 response carries the URL and the title
\* percent-encoded (encodeURIComponent); getGameData(gameTitle, platform) is
\* used as well when no such result has an href.
C20_UsableSearchResultIsScraped ==
    \A i \in C20_Searched :
        LET h == handlers[i]
            result == C20_UsableResult(h.body.gameTitle[1], h.search[1])
        IN  IF result = None THEN C20_FetchedByTitle(h)
            ELSE /\ C20_FetchedFromUrl(h, C20_Absolute(result[1].href[1]))
                 /\ (h.response # None /\ h.failed = <<>>) =>
                       /\ h.response[1].headers["X-ESRB-Game-Url"]
                             = encodeURIComponent(
                                   C20_Absolute(result[1].href[1]))
                       /\ h.response[1].headers["X-ESRB-Game-Title"]
                             = encodeURIComponent(h.data[1].title)
                       /\ h.response[1].headers["X-ESRB-Rating"]
                             = h.data[1].ratingCategory

\* The search listed 'Halo 2' before ' HALO ': the data was scraped from the
\* page of the exact match and the image returned with its URL.
C20_Witness ==
    \E i \in C20_Searched :
        /\ handlers[i].search[1] # None
        /\ Len(handlers[i].search[1][1]) = 2
        /\ handlers[i].finalGameUrl = EsrbOrigin \o <<"/", "1">>
        /\ handlers[i].failed = <<>>
        /\ handlers[i].response # None
        /\ handlers[i].response[1].status = 200
        /\ handlers[i].response[1].headers["X-ESRB-Game-Url"]
              = encodeURIComponent(EsrbOrigin) \o <<"%", "2", "F", "1">>

---------------------------------------------------------------------------
(* Properties of the temporary file and of the responses of POST.          *)

\* The calls of POST that have returned the image response.
C21_Answered200(h) == h.response # None /\ h.response[1].status = 200

\* The last n operations the call h has performed.
C21_LastCalls(h, n) ==
    IF Len(h.calls) < n THEN <<>>
    ELSE SubSeq(h.calls, Len(h.calls) - n + 1, Len(h.calls))

\* C21: a 200 image/png response is returned only after renderer.generate
\* has succeeded and the temporary file has been read; render, read and
\* unlink happen exactly once each, in this order, and then the response is
\* made, whose body is the bytes read from the file that generate wrote.
C21_WriteThenReadThenDelete ==
    \A i \in Invocations :
        LET h == handlers[i]
        IN  /\ h.response # None <=> h.pc = "done"
            /\ C21_Answered200(h) =>
                  /\ h.response[1].headers["Content-Type"] = "image/png"
                  /\ C21_LastCalls(h, 3) = <<"generate", "readFile", "unlink">>
                  /\ \A op \in {"generate", "readFile", "unlink"} :
                         C18_Count(h.calls, op) = 1
                  /\ C18_Count(h.failed, "generate") = 0
                  /\ C18_Count(h.failed, "readFile") = 0
                  /\ h.fileBuffer = Some(Slate(h, TRUE))
                  /\ h.response[1].body = h.fileBuffer

\* A call has returned the image it read from its temporary file.
C21_Witness ==
    \E i \in Invocations :
        /\ C21_Answered200(handlers[i])
        /\ handlers[i].response[1].body # None
        /\ handlers[i].file = "unlinked"

\* The payloads of invalid shape: a body that is no JSON object, an
\* aspectRatio that is no string, a missing or unknown mode, a mode without
\* the field it requires.
C22_InvalidShape(body) ==
    \/ ~body.json
    \/ body.json /\ body.aspectRatio # None
                 /\ body.aspectRatio[1].type # "string"
    \/ C17_Invalid(body)

\* The call h ended because its last scraper lookup failed.
C22_ScrapingFailed(h) ==
    /\ h.data = None
    /\ C18_FailedLookups(h) # <<>>
    /\ h.pc = "done"

\* C22: a call of POST with a payload of invalid shape returns status 400,
\* and a call whose scraping failed returns status 500 with an error message.
C22_FailuresByKind ==
    \A i \in Invocations :
        LET h == handlers[i]
        IN  /\ (C22_InvalidShape(h.body) /\ h.pc = "done") =>
                  h.response[1].status = 400
            /\ C22_ScrapingFailed(h) =>
                  /\ h.response[1].status = 500
                  /\ \E message \in
                        {"Failed to scrape game data. Ensure the title is correct or try manual mode.",
                         "Failed to scrape game data from URL. Ensure the URL is correct."} :
                        h.response[1].body = Some(JsonError(message))

---------------------------------------------------------------------------
(* Properties of the time-to-live of the counters.                         *)

\* A step that changes the store is a matched call of proxy, the one that
\* last holds after the step; C24_Key is the key of that call.
C24_Key == ClientIp(last'[1].request)

\* The call finds the counter its key was given less than a window ago, by
\* the latest matched request of the key.
C24_FindsCounter ==
    /\ CacheHas(rateLimitCache, C24_Key)
    /\ now - CacheEntry(rateLimitCache, C24_Key).ttlStart < RATE_LIMIT_WINDOW

\* The counter of the key was dropped for capacity after a matched request of
\* the key that was made less than a window ago (no request is made before
\* time 0).
C24_LostCounter ==
    /\ C24_Key \in evicted
    /\ now < RATE_LIMIT_WINDOW

\* The call adds one to the count it found and leaves windowStart as it was.
C24_GoesOn ==
    /\ CacheEntry(rateLimitCache', C24_Key).value.count
          = CacheEntry(rateLimitCache, C24_Key).value.count + 1
    /\ CacheEntry(rateLimitCache', C24_Key).value.start
          = CacheEntry(rateLimitCache, C24_Key).value.start

\* C24: every matched request stores the counter back with windowStart as it
\* was and with a time-to-live that counts from now; a counter whose key
\* sent its latest matched request less than a window ago is kept and its
\* count goes on from where it was.
C24_KeptWhileRequestsAreClose ==
    [][rateLimitCache' # rateLimitCache =>
        /\ CacheEntry(rateLimitCache', C24_Key).ttlStart = now
        /\ C24_LostCounter =>
              CacheEntry(rateLimitCache', C24_Key).value.count >= 2
        /\ C24_FindsCounter => C24_GoesOn
    ]_vars

\* C24, amended: the same for a counter that was not dropped for capacity
\* since the latest matched request of its key; a key whose counter was
\* dropped starts again at count 1.
C24_KeptWhileRequestsAreCloseUnlessDropped ==
    [][rateLimitCache' # rateLimitCache =>
        /\ CacheEntry(rateLimitCache', C24_Key).ttlStart = now
        /\ C24_LostCounter =>
              CacheEntry(rateLimitCache', C24_Key).value
                  = [count |-> 1, start |-> now]
        /\ C24_FindsCounter => C24_GoesOn
    ]_vars

\* Client "1" sent matched requests at time 0, half a window later and a
\* full window later: its counter of time 0 holds count 3 and its
\* time-to-live counts from now.
C24_Witness ==
    /\ now = RATE_LIMIT_WINDOW
    /\ LastMatched
    /\ LastKey = DigitsOf(1)
    /\ CacheEntry(rateLimitCache, LastKey).value = [count |-> 3, start |-> 0]
    /\ CacheEntry(rateLimitCache, LastKey).ttlStart = now

\* The latest matched request of the key of r was rejected, and the seconds
\* of its Retry-After header have passed since: the counter holds a count
\* over the ceiling and was stored that long ago or longer.
C25_WaitedAsTold(r) ==
    /\ CacheHas(rateLimitCache, ClientIp(r))
    /\ CacheEntry(rateLimitCache, ClientIp(r)).value.count > Limit
    /\ now - CacheEntry(rateLimitCache, ClientIp(r)).ttlStart
           >= MathCeilDiv(RATE_LIMIT_WINDOW, 1000) * 1000

\* C25: the next matched request of a client that was rejected and then sent
\* no matched request for the seconds of Retry-After, or longer, is allowed.
C25_RetryAfterHonoured ==
    [][\A r \in Requests :
        (Call(r) /\ Matched(r) /\ WholeLimit /\ Limit >= 1
            /\ C25_WaitedAsTold(r))
        => last'[1].response.status = 200]_vars

---------------------------------------------------------------------------
(* Properties of the scraper calls and of the temporary file of POST.      *)

\* C26: a call of POST invokes each scraper operation at most once: at most
\* one title lookup getGameData, never a second one after a failed one, and
\* at most one URL lookup getGameDataFromUrl.
C26_EachLookupAtMostOnce ==
    \A i \in Invocations :
        /\ C18_Count(handlers[i].calls, "getGameData") <= 1
        /\ C18_Count(handlers[i].calls, "getGameDataFromUrl") <= 1
        /\ C18_Count(handlers[i].failed, "getGameData") >= 1 =>
              handlers[i].pc # "getGameDataRetry"

\* C27: a call of POST that started renderer.generate has deleted its
\* temporary file, or attempted to, when it returns its response.
C27_NoFileOutlivesRequest ==
    \A i \in Invocations :
        (/\ handlers[i].pc = "done"
         /\ C18_Count(handlers[i].calls, "generate") >= 1) =>
            /\ C18_Count(handlers[i].calls, "unlink") >= 1
            /\ C18_Count(handlers[i].failed, "unlink") = 0 =>
                  handlers[i].file # "written"

\* The response res is a JSON error response with one of the server's
\* messages.
C29_JsonError(res) ==
    /\ res.headers["Content-Type"] = "application/json"
    /\ \E m \in ServerMessages : res.body = Some(JsonError(m))

\* C29: a call of POST that is over has resolved with a response; a body
\* that cannot be parsed, a failed scrape, a failed render and a failed read
\* of the temporary file end in a JSON error response with status 400 or
\* 500 (the failed render with 500 'Failed to generate image.'), and a
\* failed unlink leaves the 200 image response as it is.
C29_AlwaysResolves ==
    \A i \in Invocations :
        LET h == handlers[i]
        IN  h.pc = "done" =>
              /\ h.response # None
              /\ h.response # None =>
                    LET res == h.response[1]
                    IN  /\ res.status \in {200, 400, 500}
                        /\ res.status # 200 => C29_JsonError(res)
                        /\ ~h.body.json => res.status = 500
                        /\ C22_ScrapingFailed(h) => res.status = 500
                        /\ C18_Count(h.failed, "generate") >= 1 =>
                              res = NextResponseJson(
                                        "Failed to generate image.", 500)
                        /\ C18_Count(h.failed, "readFile") >= 1 =>
                              res.status = 500
                        /\ C18_Count(h.failed, "unlink") >= 1 =>
                              /\ res.status = 200
                              /\ res.headers["Content-Type"] = "image/png"
                              /\ res.body = h.fileBuffer

\* A call whose read of the temporary file failed has returned the JSON
\* error response with status 500.
C29_Witness ==
    \E i \in Invocations :
        /\ handlers[i].pc = "done"
        /\ C18_Count(handlers[i].failed, "readFile") = 1
        /\ handlers[i].response # None
        /\ handlers[i].response[1].status = 500
        /\ C29_JsonError(handlers[i].response[1])

---------------------------------------------------------------------------
(* Properties of the page.                                                 *)

\* C23: while a request of the page is pending the button reads
\* 'Generating...'; after a generate action has finished on a response,
\* loading is false and exactly one outcome is shown: for a response that is
\* not ok the server's error message and no image, for an ok response the
\* image with the game info of the X-ESRB-* headers and no error.
C23_ExactlyOneOutcome ==
    /\ Page.calls # <<>> => ButtonText = "Generating..."
    /\ (Page.finished # None /\ Page.finished[1].res # None) =>
          LET res == Page.finished[1].res[1]
          IN  /\ ~Page.loading
              /\ IF Ok(res)
                 THEN /\ Page.imageUrl # None
                      /\ Page.imageUrl[1].blob = res.body
                      /\ Page.error = None
                      /\ Page.foundGameInfo # None
                      /\ encodeURIComponent(Page.foundGameInfo[1].title)
                            = res.headers["X-ESRB-Game-Title"]
                      /\ Page.foundGameInfo[1].rating
                            = res.headers["X-ESRB-Rating"]
                      /\ encodeURIComponent(Page.foundGameInfo[1].url)
                            = HeaderOrEmpty(res, "X-ESRB-Game-Url")
                 ELSE /\ Page.error # None
                      /\ res.body = Some(JsonError(Page.error[1]))
                      /\ Page.imageUrl = None

\* C28: while loading is true the Generate button is disabled; at most one
\* call of handleGenerate is in progress; loading is true whenever one is;
\* the image and the error that are displayed were set by the call of
\* handleGenerate that started last.
C28_OneGenerationAtATime ==
    /\ Page.loading => GenerateButton.disabled
    /\ Len(Page.calls) <= 1
    /\ Page.calls # <<>> => Page.loading
    /\ Page.imageUrl # None => Page.imageOf = Page.started
    /\ Page.error # None => Page.errorOf = Page.started

---------------------------------------------------------------------------
(* Properties of the render options.                                       *)

\* What generate was given by the call h: the slate in its temporary file,
\* or the one read from it.
C30_Passed(h) == IF h.bytes # None THEN h.bytes[1] ELSE h.fileBuffer[1]
C30_Rendered(h) == h.bytes # None \/ h.fileBuffer # None

\* A part is numeric when the whole of it is a decimal number.
C30_Numeric(part) == Trim(part) # <<>> /\ ~Number(Some(part)).nan

\* The factor C30 states: 0 for an aspectRatio that is absent, 'auto', not
\* of the form 'w/h', with a part that is not numeric or with w <= 0, and
\* h / w otherwise.
C30_StatedFactor(aspectRatio) ==
    IF aspectRatio = None \/ aspectRatio[1].type # "string" THEN Int2Num(0)
    ELSE LET text == aspectRatio[1].value
             slashes == {i \in 1..Len(text) : text[i] = "/"}
             at == CHOOSE i \in slashes : TRUE
             w == SubSeq(text, 1, at - 1)
             h == SubSeq(text, at + 1, Len(text))
         IN  IF Cardinality(slashes) # 1 THEN Int2Num(0)
             ELSE IF ~C30_Numeric(w) \/ ~C30_Numeric(h) THEN Int2Num(0)
             ELSE IF Number(Some(w)).n <= 0 THEN Int2Num(0)
             ELSE Quotient(Number(Some(h)), Number(Some(w)))

\* C30: the heightFactor passed to renderer.generate is the stated factor,
\* and margin and is4k are passed as given, 0 and false when absent.
C30_HeightFactorAsStated ==
    \A i \in Invocations :
        C30_Rendered(handlers[i]) =>
            /\ C30_Passed(handlers[i]).heightFactor
                  = C30_StatedFactor(handlers[i].body.aspectRatio)
            /\ C30_Passed(handlers[i]).margin
                  = IF handlers[i].body.margin = None THEN 0
                    ELSE handlers[i].body.margin[1]
            /\ C30_Passed(handlers[i]).is4k
                  = IF handlers[i].body.is4k = None THEN FALSE
                    ELSE handlers[i].body.is4k[1]

\* The factors of the aspectRatio texts when each part is read as parseFloat
\* reads it, by its leading decimal number: '21/9' gives 9/21 = 3/7, '16/9'
\* and '16x/9' give 9/16, '1.5/1' gives 2/3, '4/-3' gives -3/4, the others 0.
C30_FactorOf(text) ==
    IF text = <<"2", "1", "/", "9">> THEN [nan |-> FALSE, n |-> 3, d |-> 7]
    ELSE IF text \in {<<"1", "6", "/", "9">>, <<"1", "6", "x", "/", "9">>}
    THEN [nan |-> FALSE, n |-> 9, d |-> 16]
    ELSE IF text = <<"1", ".", "5", "/", "1">>
    THEN [nan |-> FALSE, n |-> 2, d |-> 3]
    ELSE IF text = <<"4", "/", "-", "3">>
    THEN [nan |-> FALSE, n |-> -3, d |-> 4]
    ELSE Int2Num(0)

\* C30, amended: generate is called only for an aspectRatio that is absent
\* or a string; the heightFactor passed is 0 when it is absent and else the
\* factor above, and margin and is4k are passed as given, 0 and false when
\* absent.
C30_HeightFactorAsParsed ==
    \A i \in Invocations :
        C30_Rendered(handlers[i]) =>
            /\ handlers[i].body.aspectRatio # None =>
                  handlers[i].body.aspectRatio[1].type = "string"
            /\ C30_Passed(handlers[i]).heightFactor
                  = IF handlers[i].body.aspectRatio = None THEN Int2Num(0)
                    ELSE C30_FactorOf(handlers[i].body.aspectRatio[1].value)
            /\ C30_Passed(handlers[i]).margin
                  = IF handlers[i].body.margin = None THEN 0
                    ELSE handlers[i].body.margin[1]
            /\ C30_Passed(handlers[i]).is4k
                  = IF handlers[i].body.is4k = None THEN FALSE
                    ELSE handlers[i].body.is4k[1]

\* generate has been called for the aspectRatio '21/9' with margin 10 and
\* is4k true, and was given the factor 3/7.
C30_Witness ==
    \E i \in Invocations :
        /\ C30_Rendered(handlers[i])
        /\ handlers[i].body.aspectRatio
              = Some([type |-> "string", value |-> <<"2", "1", "/", "9">>])
        /\ handlers[i].body.margin = Some(10)
        /\ C30_Passed(handlers[i]).heightFactor = [nan |-> FALSE, n |-> 3, d |-> 7]
        /\ C30_Passed(handlers[i]).margin = 10
        /\ C30_Passed(handlers[i]).is4k

=============================================================================
